---- MODULE Spec2Model ----
(***************************************************************************)
(* A model of pl_viz, the PrairieLearn aggregation layer.                  *)
(*                                                                         *)
(* Python objects live in three heaps (courses, students, assessments);    *)
(* an object's identity is its index in its heap, so "the same instance"   *)
(* is "the same index".  A dict is a sequence of <<key, value>> pairs in   *)
(* insertion order.  The repository ships three variants of the classes:   *)
(*   "pl_api"  src/src/pl_viz/pl_api.py                                    *)
(*   "pl_viz"  src/src/pl_viz/course.py, student.py, assessment.py         *)
(*   "legacy"  src/prairielearn_classes.py, src/helper.py                  *)
(* and the variable variant says which one runs.                           *)
(***************************************************************************)
EXTENDS Integers, Sequences, FiniteSets, TLC

VARIABLES variant, courses, students, assessments,
          global_students, global_assessments, calls, net, passes

vars == <<variant, courses, students, assessments,
          global_students, global_assessments, calls, net, passes>>

(* ------------------------------ bounds -------------------------------- *)

\* Operations called on the entities in one behaviour of Spec.
MaxCalls == 2

\* Calls of fetch_data in one behaviour of SpecAgg.
MaxPasses == 2

\* Submissions in one response of SpecSub.
MaxSubs == 2

(* --------------------------- input domains ---------------------------- *)

Variants == {"pl_api", "pl_viz", "legacy"}

\* The one status the code takes for success.
HTTP_OK == 200

Statuses == {200, 500}

\* What a legacy Student or Assessment, which stores no token, holds.
NoToken == "none"

\* The credential handed to fetch_data and to the legacy methods.
Credential == "tok"

Row(i, n, u) == [user_id |-> i, user_name |-> n, user_uid |-> u]

\* Gradebook bodies: empty; one student; two students, one of them on two
\* rows and under another name than in the one-student roster.
Rosters ==
  { <<>>,
    << Row(7, "A", "a@ubc.ca") >>,
    << Row(7, "B", "b@ubc.ca"), Row(8, "A", "a@ubc.ca"), Row(7, "B", "b@ubc.ca") >> }

ARow(i, n, l) == [assessment_id |-> i, assessment_name |-> n, assessment_label |-> l]

\* Assessment-list bodies: one assessment; one assessment on two rows, the
\* second under another name.
AssessmentLists ==
  { << ARow(1, "HW1", "hw") >>,
    << ARow(2, "Quiz", "quiz"), ARow(2, "Quiz2", "quiz") >> }

Response(s, b) == [status |-> s, body |-> b]

\* A response the code takes for a failure may carry a body all the same.
GradebookResponses ==
  { Response(HTTP_OK, b) : b \in Rosters } \cup
  { Response(s, << Row(7, "A", "a@ubc.ca") >>) : s \in Statuses \ {HTTP_OK} }

AssessmentsResponses ==
  { Response(HTTP_OK, b) : b \in AssessmentLists } \cup
  { Response(s, << ARow(1, "HW1", "hw") >>) : s \in Statuses \ {HTTP_OK} }

(* ------------------------------ helpers ------------------------------- *)

Range(s) == { s[i] : i \in 1..Len(s) }

\* Python dict: key in d, d[key], d[key] = value, d.values(), d.keys().
DictHas(d, k) == \E i \in 1..Len(d) : d[i][1] = k

DictGet(d, k) == d[CHOOSE i \in 1..Len(d) : d[i][1] = k][2]

DictPut(d, k, v) ==
  IF DictHas(d, k)
    THEN [i \in 1..Len(d) |-> IF d[i][1] = k THEN <<k, v>> ELSE d[i]]
    ELSE Append(d, <<k, v>>)

DictKeys(d) == { d[i][1] : i \in 1..Len(d) }

\* d.get(key, default)
DictGetOr(d, k, default) == IF DictHas(d, k) THEN DictGet(d, k) ELSE default

DictValues(d) == [i \in 1..Len(d) |-> d[i][2]]

(* ------------------------------ entities ------------------------------ *)

\* Course.__init__
Course(course_code, course_id, token) ==
  [course_code |-> course_code, course_id |-> course_id, token |-> token,
   students |-> <<>>, assessments |-> <<>>]

\* Student.__init__
Student(user_id, user_name, user_uid, token) ==
  [user_id |-> user_id, user_name |-> user_name, user_uid |-> user_uid,
   token |-> token, courses |-> <<>>, grades |-> <<>>]

\* Assessment.__init__; only the legacy class has submissions_fetched.
Assessment(assessment_id, name, label, course_id, token) ==
  [assessment_id |-> assessment_id, name |-> name, label |-> label,
   course_id |-> course_id, token |-> token, scores |-> <<>>,
   submissions_fetched |-> FALSE]

\* Parameters of Student.__init__ after self, and the arguments the two call
\* sites of fetch_students pass.
StudentParams(v) == IF v = "legacy" THEN 3 ELSE 4

StudentArgsShared(v) == IF v = "legacy" THEN 3 ELSE 4

StudentArgsUnshared(v) == IF v = "pl_api" THEN 4 ELSE 3

\* Parameters of Assessment.__init__ after self, and the arguments the two
\* call sites of fetch_assessments pass.
AssessmentParams(v) == IF v = "legacy" THEN 4 ELSE 5

AssessmentArgsShared(v) == IF v = "legacy" THEN 4 ELSE 5

AssessmentArgsUnshared == 4

\* The token a new Student or Assessment stores.
StoredToken(v, token) == IF v = "legacy" THEN NoToken ELSE token

\* course in self.courses: list membership by ==, which for Course (it
\* defines no __eq__) is object identity.
CourseInList(c, cs) == \E i \in 1..Len(cs) : cs[i] = c

\* add_course assigning the list instead of appending to it.
add_course_replace(studs, s, c) ==
  IF ~CourseInList(c, studs[s].courses)
    THEN [studs EXCEPT ![s].courses = << c >>]
    ELSE studs

\* Student.add_course on the student heap.
add_course(studs, s, c) ==
  IF ~CourseInList(c, studs[s].courses)
    THEN [studs EXCEPT ![s].courses = Append(@, c)]
    ELSE studs

(* ------------------------- Course.fetch_students ---------------------- *)

\* The state a call works on: the three heaps, the registries handed to it
\* (gs for students, ga for assessments), the exception that ended it
\* ("none" while it runs), and the transport requests issued so far.
World(cs, ss, as, gs, ga) ==
  [courses |-> cs, students |-> ss, assessments |-> as, gs |-> gs, ga |-> ga,
   raised |-> "none", requests |-> <<>>]

Request(kind, course_id, assessment_id, token) ==
  [kind |-> kind, course_id |-> course_id, assessment_id |-> assessment_id,
   token |-> token]

\* student_row with the lookup left out: every row constructs a Student.
student_row_no_lookup(v, st, c, shared, row) ==
  LET new == Len(st.students) + 1
      created == Append(st.students,
                        Student(row.user_id, row.user_name, row.user_uid,
                                StoredToken(v, st.courses[c].token)))
  IN [st EXCEPT
        !.students = add_course(created, new, c),
        !.gs = IF shared /\ ~DictHas(@, row.user_id)
                 THEN DictPut(@, row.user_id, new) ELSE @,
        !.courses[c].students = Append(@, new)]

\* student_row without student_instance.add_course(self).
student_row_no_add_course(v, st, c, shared, row) ==
  LET known == shared /\ DictHas(st.gs, row.user_id)
      new == Len(st.students) + 1
      created == Append(st.students,
                        Student(row.user_id, row.user_name, row.user_uid,
                                StoredToken(v, st.courses[c].token)))
  IN [st EXCEPT
        !.students = IF known THEN @ ELSE created,
        !.gs = IF shared /\ ~known THEN DictPut(@, row.user_id, new) ELSE @,
        !.courses[c].students =
           Append(@, IF known THEN DictGet(st.gs, row.user_id) ELSE new)]

\* student_row refreshing a registered Student from the row.
student_row_refresh(v, st, c, shared, row) ==
  LET known == shared /\ DictHas(st.gs, row.user_id)
      new == Len(st.students) + 1
      student_instance == IF known THEN DictGet(st.gs, row.user_id) ELSE new
      created == Append(st.students,
                        Student(row.user_id, row.user_name, row.user_uid,
                                StoredToken(v, st.courses[c].token)))
      refreshed == [st.students EXCEPT
                      ![student_instance].user_name = row.user_name,
                      ![student_instance].user_uid = row.user_uid,
                      ![student_instance].token =
                         StoredToken(v, st.courses[c].token)]
  IN [st EXCEPT
        !.students = add_course(IF known THEN refreshed ELSE created,
                                student_instance, c),
        !.gs = IF shared /\ ~known THEN DictPut(@, row.user_id, new) ELSE @,
        !.courses[c].students = Append(@, student_instance)]

\* student_row appending the Student unless the course's list holds it.
student_row_once(v, st, c, shared, row) ==
  LET known == shared /\ DictHas(st.gs, row.user_id)
      new == Len(st.students) + 1
      student_instance == IF known THEN DictGet(st.gs, row.user_id) ELSE new
      created == Append(st.students,
                        Student(row.user_id, row.user_name, row.user_uid,
                                StoredToken(v, st.courses[c].token)))
  IN [st EXCEPT
        !.students = add_course(IF known THEN @ ELSE created,
                                student_instance, c),
        !.gs = IF shared /\ ~known THEN DictPut(@, row.user_id, new) ELSE @,
        !.courses[c].students =
           IF student_instance \in Range(@) THEN @ ELSE Append(@, student_instance)]

\* One iteration of the roster loop: create or retrieve the Student, add the
\* course to it, append it to the course's students.  shared says whether a
\* registry was passed (global_students is not None).
student_row(v, st, c, shared, row) ==
  LET student_id == row.user_id
      known == shared /\ DictHas(st.gs, student_id)
      args == IF shared THEN StudentArgsShared(v) ELSE StudentArgsUnshared(v)
      new == Len(st.students) + 1
      student_instance == IF known THEN DictGet(st.gs, student_id) ELSE new
      created == Append(st.students,
                        Student(student_id, row.user_name, row.user_uid,
                                StoredToken(v, st.courses[c].token)))
  IN IF ~known /\ args # StudentParams(v)
       THEN [st EXCEPT !.raised = "TypeError"]
       ELSE [st EXCEPT
               !.students = add_course(IF known THEN @ ELSE created,
                                       student_instance, c),
               !.gs = IF shared /\ ~known THEN DictPut(@, student_id, new) ELSE @,
               !.courses[c].students = Append(@, student_instance)]

RECURSIVE student_rows(_, _, _, _, _)
student_rows(v, st, c, shared, rows) ==
  IF rows = <<>> \/ st.raised # "none"
    THEN st
    ELSE student_rows(v, student_row(v, st, c, shared, Head(rows)), c, shared,
                      Tail(rows))

\* fetch_students reading the rows before it looks at the status.
fetch_students_late_check(v, st, c, shared, resp) ==
  LET sent == [st EXCEPT !.requests =
                 Append(@, Request("gradebook", st.courses[c].course_id, 0,
                                   st.courses[c].token))]
      done == student_rows(v, sent, c, shared, resp.body)
  IN IF resp.status = HTTP_OK THEN done ELSE [done EXCEPT !.raised = "ValueError"]

\* Course.fetch_students(global_students) given the transport's response.
fetch_students(v, st, c, shared, resp) ==
  LET sent == [st EXCEPT !.requests =
                 Append(@, Request("gradebook", st.courses[c].course_id, 0,
                                   st.courses[c].token))]
  IN IF resp.status = HTTP_OK
       THEN student_rows(v, sent, c, shared, resp.body)
       ELSE [sent EXCEPT !.raised = "ValueError"]

(* ------------------------ Course.fetch_assessments -------------------- *)

\* assessment_row storing a new Assessment under the id on every row.
assessment_row_overwrite(v, st, c, shared, row) ==
  LET new == Len(st.assessments) + 1
      created == Append(st.assessments,
                        Assessment(row.assessment_id, row.assessment_name,
                                   row.assessment_label, st.courses[c].course_id,
                                   StoredToken(v, st.courses[c].token)))
  IN [st EXCEPT
        !.assessments = created,
        !.ga = IF shared THEN DictPut(@, row.assessment_id, new) ELSE @,
        !.courses[c].assessments = Append(@, new)]

\* assessment_row giving a new Assessment the course_id of the first Course.
assessment_row_first_course(v, st, c, shared, row) ==
  LET known == shared /\ DictHas(st.ga, row.assessment_id)
      new == Len(st.assessments) + 1
      created == Append(st.assessments,
                        Assessment(row.assessment_id, row.assessment_name,
                                   row.assessment_label, st.courses[1].course_id,
                                   StoredToken(v, st.courses[c].token)))
  IN [st EXCEPT
        !.assessments = IF known THEN @ ELSE created,
        !.ga = IF shared /\ ~known THEN DictPut(@, row.assessment_id, new) ELSE @,
        !.courses[c].assessments =
           Append(@, IF known THEN DictGet(st.ga, row.assessment_id) ELSE new)]

\* One iteration of the assessment loop.
assessment_row(v, st, c, shared, row) ==
  LET assessment_id == row.assessment_id
      known == shared /\ DictHas(st.ga, assessment_id)
      args == IF shared THEN AssessmentArgsShared(v) ELSE AssessmentArgsUnshared
      new == Len(st.assessments) + 1
      assessment_instance == IF known THEN DictGet(st.ga, assessment_id) ELSE new
      created == Append(st.assessments,
                        Assessment(assessment_id, row.assessment_name,
                                   row.assessment_label, st.courses[c].course_id,
                                   StoredToken(v, st.courses[c].token)))
  IN IF ~known /\ args # AssessmentParams(v)
       THEN [st EXCEPT !.raised = "TypeError"]
       ELSE [st EXCEPT
               !.assessments = IF known THEN @ ELSE created,
               !.ga = IF shared /\ ~known THEN DictPut(@, assessment_id, new) ELSE @,
               !.courses[c].assessments = Append(@, assessment_instance)]

RECURSIVE assessment_rows(_, _, _, _, _)
assessment_rows(v, st, c, shared, rows) ==
  IF rows = <<>> \/ st.raised # "none"
    THEN st
    ELSE assessment_rows(v, assessment_row(v, st, c, shared, Head(rows)), c,
                         shared, Tail(rows))

\* Course.fetch_assessments(global_assessments) given the transport's response.
fetch_assessments(v, st, c, shared, resp) ==
  LET sent == [st EXCEPT !.requests =
                 Append(@, Request("assessments", st.courses[c].course_id, 0,
                                   st.courses[c].token))]
  IN IF resp.status = HTTP_OK
       THEN assessment_rows(v, sent, c, shared, resp.body)
       ELSE [sent EXCEPT !.raised = "ValueError"]

(* ----------------- Spec: operations on two Course objects ------------- *)

\* The second Course: another course, or a second object for the same
\* remote course as the first.
SecondCourses ==
  { Course("MATH201", 1002, "tok2"), Course("CS101", 1001, "tok2") }

\* The calls made so far, oldest first: the operation, the Course it was
\* called on or with, whether a registry was passed, the transport's
\* response and the exception the call raised ("none": it returned).
Call(op, c, shared, resp, raised) ==
  [op |-> op, course |-> c, shared |-> shared, resp |-> resp, raised |-> raised]

NoResponse == Response(0, <<>>)

NoNet == <<>>

Init ==
  /\ variant \in Variants
  /\ \E c2 \in SecondCourses : courses = << Course("CS101", 1001, "tok1"), c2 >>
  /\ students = <<>>
  /\ assessments = <<>>
  /\ global_students = <<>>
  /\ global_assessments = <<>>
  /\ calls = <<>>
  /\ net = NoNet
  /\ passes = <<>>

Here == World(courses, students, assessments, global_students, global_assessments)

\* course.fetch_students(global_students) or course.fetch_students()
FetchStudents(c, shared, resp) ==
  /\ Len(calls) < MaxCalls
  /\ LET st == fetch_students(variant, Here, c, shared, resp)
     IN /\ courses' = st.courses
        /\ students' = st.students
        /\ global_students' = st.gs
        /\ calls' = Append(calls, Call("fetch_students", c, shared, resp, st.raised))
  /\ UNCHANGED <<variant, assessments, global_assessments, net, passes>>

\* course.fetch_assessments(global_assessments) or course.fetch_assessments()
FetchAssessments(c, shared, resp) ==
  /\ Len(calls) < MaxCalls
  /\ LET st == fetch_assessments(variant, Here, c, shared, resp)
     IN /\ courses' = st.courses
        /\ assessments' = st.assessments
        /\ global_assessments' = st.ga
        /\ calls' = Append(calls, Call("fetch_assessments", c, shared, resp, st.raised))
  /\ UNCHANGED <<variant, students, global_students, net, passes>>

\* student.add_course(course), called directly
AddCourse(s, c) ==
  /\ Len(calls) < MaxCalls
  /\ students' = add_course(students, s, c)
  /\ calls' = Append(calls, Call("add_course", c, FALSE, NoResponse, "none"))
  /\ UNCHANGED <<variant, courses, assessments, global_students,
                 global_assessments, net, passes>>

Next ==
  \/ \E c \in 1..Len(courses), shared \in BOOLEAN, resp \in GradebookResponses :
       FetchStudents(c, shared, resp)
  \/ \E c \in 1..Len(courses), shared \in BOOLEAN, resp \in AssessmentsResponses :
       FetchAssessments(c, shared, resp)
  \/ \E s \in 1..Len(students), c \in 1..Len(courses) : AddCourse(s, c)

Spec == Init /\ [][Next]_vars

(* ---------------------- Assessment.fetch_submissions ------------------ *)

\* Python's None where a number may stand.
None == -1

\* [s.get("score_perc", 0) for s in submissions] with no filter: a missing
\* score becomes 0.
RECURSIVE ScoresOfZeroSubstituted(_)
ScoresOfZeroSubstituted(submissions) ==
  IF submissions = <<>> THEN <<>>
  ELSE LET x == DictGetOr(Head(submissions), "score_perc", None)
       IN << IF x = None THEN 0 ELSE x >> \o
          ScoresOfZeroSubstituted(Tail(submissions))

\* [s.get("score_perc", 0) for s in submissions
\*    if s.get("score_perc") is not None]
RECURSIVE ScoresOf(_)
ScoresOf(submissions) ==
  IF submissions = <<>> THEN <<>>
  ELSE LET submission == Head(submissions)
       IN (IF DictGetOr(submission, "score_perc", None) # None
             THEN << DictGetOr(submission, "score_perc", 0) >>
             ELSE <<>>)
          \o ScoresOf(Tail(submissions))

\* fetch_submissions emptying scores before it raises.
fetch_submissions_reset(v, st, a, token, resp) ==
  LET A == st.assessments[a]
      sent == [st EXCEPT !.requests =
                 Append(@, Request("assessment_instances", A.course_id,
                                   A.assessment_id,
                                   IF v = "legacy" THEN token ELSE A.token))]
  IN IF resp.status = HTTP_OK
       THEN [sent EXCEPT
               !.assessments[a].scores = ScoresOf(resp.body),
               !.assessments[a].submissions_fetched = (v = "legacy")]
       ELSE [sent EXCEPT !.assessments[a].scores = <<>>,
                         !.raised = "ValueError"]

\* Assessment.fetch_submissions given the transport's response; the legacy
\* method takes the token as its argument and sets submissions_fetched.
fetch_submissions(v, st, a, token, resp) ==
  LET A == st.assessments[a]
      sent == [st EXCEPT !.requests =
                 Append(@, Request("assessment_instances", A.course_id,
                                   A.assessment_id,
                                   IF v = "legacy" THEN token ELSE A.token))]
  IN IF resp.status = HTTP_OK
       THEN [sent EXCEPT
               !.assessments[a].scores = ScoresOf(resp.body),
               !.assessments[a].submissions_fetched =
                 IF v = "legacy" THEN TRUE ELSE @]
       ELSE [sent EXCEPT !.raised = "ValueError"]

(* ------------- SpecSub: fetch_submissions on one Assessment ----------- *)

\* A submission: a dict with a number under score_perc, with None under it,
\* or without the key.
Scored(x) == << <<"assessment_instance_id", 1>>, <<"score_perc", x>> >>

Unscored == << <<"assessment_instance_id", 1>> >>

Submissions == { Scored(0), Scored(80), Scored(None), Unscored }

\* The submissions [80, None, 60, 100].
ExampleSubmissions == << Scored(80), Scored(None), Scored(60), Scored(100) >>

SubmissionLists ==
  UNION { [1..n -> Submissions] : n \in 0..MaxSubs } \cup { ExampleSubmissions }

SubmissionsResponses ==
  { Response(HTTP_OK, b) : b \in SubmissionLists } \cup
  { Response(s, << Scored(80) >>) : s \in Statuses \ {HTTP_OK} }

\* A call on an Assessment: the response, the exception raised and the
\* scores the Assessment held before the call.
AssessmentCall(op, a, resp, raised, before) ==
  [op |-> op, assessment |-> a, resp |-> resp, raised |-> raised,
   before |-> before]

InitSub ==
  /\ variant \in Variants
  /\ courses = <<>>
  /\ students = <<>>
  /\ assessments =
       << Assessment(1, "HW1", "hw", 1001, StoredToken(variant, Credential)) >>
  /\ global_students = <<>>
  /\ global_assessments = <<>>
  /\ calls = <<>>
  /\ net = NoNet
  /\ passes = <<>>

\* assessment.fetch_submissions(); calls keeps the latest call only.
FetchSubmissions(a, resp) ==
  /\ LET st == fetch_submissions(variant, Here, a, Credential, resp)
     IN /\ assessments' = st.assessments
        /\ calls' = << AssessmentCall("fetch_submissions", a, resp, st.raised,
                                      assessments[a].scores) >>
  /\ UNCHANGED <<variant, courses, students, global_students,
                 global_assessments, net, passes>>

NextSub ==
  \E a \in 1..Len(assessments), resp \in SubmissionsResponses :
     FetchSubmissions(a, resp)

SpecSub == InitSub /\ [][NextSub]_vars

(* ------------------- SpecAgg: calls of fetch_data --------------------- *)

CourseIds == {1001, 1002}

\* course_ids arguments: dicts from course_code to course_id, in their
\* iteration order.
CourseSpecs ==
  { <<>>,
    << <<"CS101", 1001>> >>,
    << <<"CS101", 1001>>, <<"MATH201", 1002>> >>,
    << <<"MATH201", 1002>>, <<"CS101", 1001>> >> }

\* Parameters of Course.__init__ after self, and the arguments fetch_data
\* passes to it.
CourseParams == 3

FetchDataCourseArgs(v) == IF v = "legacy" THEN 2 ELSE 3

\* Parameters of fetch_students and fetch_assessments after self, and the
\* arguments fetch_data passes to them.
FetchParams == 1

FetchDataFetchArgs(v) == IF v = "legacy" THEN 2 ELSE 1

\* The variants that ship a fetch_data: student.py and helper.py.
FetchDataVariants == {"pl_viz", "legacy"}

\* The registry of the last fetch_data that returned.
PreviousStudentRegistry ==
  LET done == { p \in 1..Len(passes) : passes[p].raised = "none" }
  IN IF done = {} THEN <<>>
     ELSE passes[CHOOSE p \in done : \A q \in done : q <= p].result.global_students

\* global_students = {}
NewStudentRegistry == <<>>

\* global_assessments = {}
NewAssessmentRegistry == <<>>

\* global_courses = {}
NewCourseRegistry == <<>>

\* The body of fetch_data's loop with the exception of fetch_students
\* caught and dropped.
fetch_data_course_swallow(v, acc, item, token, nt) ==
  LET course_code == item[1]
      course_id == item[2]
      new == Len(acc.st.courses) + 1
      st1 == [acc.st EXCEPT
                !.courses = Append(@, Course(course_code, course_id, token))]
      st2 == fetch_students(v, st1, new, TRUE, nt.gradebook[course_id])
      st3 == fetch_assessments(v, [st2 EXCEPT !.raised = "none"], new, TRUE,
                               nt.assessments[course_id])
  IN [st |-> st3, gc |-> DictPut(acc.gc, course_code, new)]

\* The body of fetch_data's loop for one item of course_ids; acc holds the
\* world and global_courses.
fetch_data_course(v, acc, item, token, nt) ==
  LET course_code == item[1]
      course_id == item[2]
      new == Len(acc.st.courses) + 1
      key == IF v = "legacy" THEN course_id ELSE course_code
      st1 == [acc.st EXCEPT
                !.courses = Append(@, Course(course_code, course_id, token))]
      st2 == IF FetchDataFetchArgs(v) # FetchParams
               THEN [st1 EXCEPT !.raised = "TypeError"]
               ELSE fetch_students(v, st1, new, TRUE, nt.gradebook[course_id])
      st3 == IF st2.raised # "none"
               THEN st2
               ELSE fetch_assessments(v, st2, new, TRUE,
                                      nt.assessments[course_id])
  IN IF FetchDataCourseArgs(v) # CourseParams
       THEN [acc EXCEPT !.st.raised = "TypeError"]
       ELSE [st |-> st3, gc |-> DictPut(acc.gc, key, new)]

RECURSIVE fetch_data_loop(_, _, _, _, _)
fetch_data_loop(v, acc, items, token, nt) ==
  IF items = <<>> \/ acc.st.raised # "none"
    THEN acc
    ELSE fetch_data_loop(v, fetch_data_course(v, acc, Head(items), token, nt),
                         Tail(items), token, nt)

Result(gc, ga, gs) ==
  [global_courses |-> gc, global_assessments |-> ga, global_students |-> gs]

\* What the caller holds when fetch_data raised.
NoResult == Result(<<>>, <<>>, <<>>)

\* fetch_data(course_ids, token) on the heaps cs, ss, as against transport nt:
\* the heaps it leaves, the exception it raised, the requests it issued and
\* the tuple it returned.
fetch_data(v, cs, ss, as, course_ids, token, nt) ==
  LET start == [st |-> World(cs, ss, as, NewStudentRegistry, NewAssessmentRegistry),
                gc |-> NewCourseRegistry]
      end == fetch_data_loop(v, start, course_ids, token, nt)
  IN [courses |-> end.st.courses, students |-> end.st.students,
      assessments |-> end.st.assessments, raised |-> end.st.raised,
      requests |-> end.st.requests,
      result |-> IF end.st.raised = "none"
                   THEN Result(end.gc, end.st.ga, end.st.gs)
                   ELSE NoResult]

InitAgg ==
  /\ variant \in FetchDataVariants
  /\ courses = <<>>
  /\ students = <<>>
  /\ assessments = <<>>
  /\ global_students = <<>>
  /\ global_assessments = <<>>
  /\ calls = <<>>
  /\ net \in [gradebook : [CourseIds -> GradebookResponses],
               assessments : [CourseIds -> AssessmentsResponses]]
  /\ passes = <<>>

\* fetch_data(course_ids, token); the pass records its argument, outcome and
\* how many objects it constructed.
FetchData(course_ids) ==
  /\ Len(passes) < MaxPasses
  /\ LET r == fetch_data(variant, courses, students, assessments, course_ids,
                         Credential, net)
     IN /\ courses' = r.courses
        /\ students' = r.students
        /\ assessments' = r.assessments
        /\ passes' = Append(passes,
                            [course_ids |-> course_ids, raised |-> r.raised,
                             requests |-> r.requests, result |-> r.result,
                             ncourses |-> Len(r.courses) - Len(courses)])
  /\ UNCHANGED <<variant, global_students, global_assessments, calls, net>>

NextAgg == \E course_ids \in CourseSpecs : FetchData(course_ids)

SpecAgg == InitAgg /\ [][NextAgg]_vars

(* ------------------------------- claims ------------------------------- *)

Count(seq, x) == Cardinality({ i \in 1..Len(seq) : seq[i] = x })

RosterIds(body) == { body[i].user_id : i \in 1..Len(body) }

UserIds == UNION { RosterIds(b) : b \in Rosters }

AssessmentIds ==
  UNION { { b[i].assessment_id : i \in 1..Len(b) } : b \in AssessmentLists }

\* Some call so far was course c's fetch_students with the registry, it
\* succeeded and its roster had a row for user k.
SharedFetched(c, k) ==
  \E i \in 1..Len(calls) :
     /\ calls[i].op = "fetch_students" /\ calls[i].course = c
     /\ calls[i].shared /\ calls[i].raised = "none"
     /\ k \in RosterIds(calls[i].resp.body)

\* Every fetch so far was handed the registry.
AllShared ==
  \A i \in 1..Len(calls) :
     calls[i].op \in {"fetch_students", "fetch_assessments"} => calls[i].shared

\* C1: two courses that both fetched a roster with user k through the shared
\* registry hold one Student instance for k, the one the registry maps k to,
\* and its courses holds each of the two courses exactly once: length 2.
C1_SharedStudentIdentity ==
  \A c1 \in 1..Len(courses), c2 \in 1..Len(courses), k \in UserIds :
     (c1 # c2 /\ SharedFetched(c1, k) /\ SharedFetched(c2, k)) =>
       /\ DictHas(global_students, k)
       /\ LET s == DictGet(global_students, k)
          IN /\ students[s].user_id = k
             /\ s \in Range(courses[c1].students)
             /\ s \in Range(courses[c2].students)
             /\ Count(students[s].courses, c1) = 1
             /\ Count(students[s].courses, c2) = 1
             /\ Len(students[s].courses) = 2
             /\ AllShared =>
                  \A x \in Range(courses[c1].students) \cup
                           Range(courses[c2].students) :
                     students[x].user_id = k => x = s

\* C1 witness: both courses fetched user 7 through the registry.
C1_Witness ==
  /\ Len(courses) = 2
  /\ SharedFetched(1, 7) /\ SharedFetched(2, 7)
  /\ courses[1].course_id # courses[2].course_id

\* The registry's keys carry their own id, every listed entity is the
\* registered one, and no id has two instances.
RegistryCanonical ==
  /\ \A k \in DictKeys(global_students) :
        students[DictGet(global_students, k)].user_id = k
  /\ \A k \in DictKeys(global_assessments) :
        assessments[DictGet(global_assessments, k)].assessment_id = k
  /\ AllShared =>
       /\ \A c \in 1..Len(courses) :
             /\ \A x \in Range(courses[c].students) :
                   /\ DictHas(global_students, students[x].user_id)
                   /\ DictGet(global_students, students[x].user_id) = x
             /\ \A x \in Range(courses[c].assessments) :
                   /\ DictHas(global_assessments, assessments[x].assessment_id)
                   /\ DictGet(global_assessments, assessments[x].assessment_id) = x
       /\ \A x \in 1..Len(students), y \in 1..Len(students) :
             students[x].user_id = students[y].user_id => x = y
       /\ \A x \in 1..Len(assessments), y \in 1..Len(assessments) :
             assessments[x].assessment_id = assessments[y].assessment_id => x = y

\* No step removes a key or maps it to another instance.
RegistryInsertOnly ==
  /\ \A k \in DictKeys(global_students) :
        DictHas(global_students', k) /\
        DictGet(global_students', k) = DictGet(global_students, k)
  /\ \A k \in DictKeys(global_assessments) :
        DictHas(global_assessments', k) /\
        DictGet(global_assessments', k) = DictGet(global_assessments, k)

\* C2: the shared registries are canonical and insertion-only: every key maps
\* to an entity with that id, no entry is ever removed or replaced, and when
\* every fetch shares the registry each listed entity is the registered
\* instance and each id was constructed once.
C2_RegistryCanonicalInsertOnly ==
  [](RegistryCanonical) /\ [][RegistryInsertOnly]_vars

\* C2 witness: an assessment id met a second time, through another course.
C2_Witness ==
  /\ AllShared
  /\ \E i \in 1..Len(calls), j \in 1..Len(calls) :
        /\ i < j
        /\ calls[i].op = "fetch_assessments" /\ calls[i].raised = "none"
        /\ calls[j].op = "fetch_assessments" /\ calls[j].raised = "none"
        /\ calls[i].course # calls[j].course
        /\ \E a \in 1..Len(calls[i].resp.body), b \in 1..Len(calls[j].resp.body) :
              calls[i].resp.body[a].assessment_id =
              calls[j].resp.body[b].assessment_id

\* C3 (as claimed): no Student's courses holds two entries with the same
\* course_id, also when two Course objects with one course_id were added.
C3_NoDuplicateCourseId ==
  \A s \in 1..Len(students) :
     \A i \in 1..Len(students[s].courses), j \in 1..Len(students[s].courses) :
        courses[students[s].courses[i]].course_id =
        courses[students[s].courses[j]].course_id => i = j

LastCall == calls[Len(calls)]

\* C4: a fetch_students whose roster request returns a status other than 200
\* raises, and leaves the course's students, the registry and every
\* Student as they were.
C4_FetchStudentsAllOrNothing ==
  [][ (calls' # calls /\ LastCall'.op = "fetch_students"
         /\ LastCall'.resp.status # HTTP_OK) =>
        /\ LastCall'.raised = "ValueError"
        /\ courses' = courses
        /\ students' = students
        /\ global_students' = global_students ]_vars

\* C4 witness: a roster request failed after an earlier one had registered
\* students.
C4_Witness ==
  /\ Len(calls) > 1
  /\ LastCall.op = "fetch_students" /\ LastCall.resp.status # HTTP_OK
  /\ LastCall.raised = "ValueError"
  /\ Len(global_students) > 0
  /\ Len(courses[LastCall.course].students) > 0

(* --------------------------- claims on fetch_data --------------------- *)

\* The response the transport gave to a logged request.
ResponseOf(req) ==
  IF req.kind = "gradebook" THEN net.gradebook[req.course_id]
  ELSE net.assessments[req.course_id]

\* Every request fetch_data could issue for these course_ids succeeds.
AllOK(course_ids) ==
  \A i \in 1..Len(course_ids) :
     /\ net.gradebook[course_ids[i][2]].status = HTTP_OK
     /\ net.assessments[course_ids[i][2]].status = HTTP_OK

\* The requests of a pass go course by course in the order of course_ids,
\* the roster before the assessment list.
RequestsInOrder(P) ==
  \A i \in 1..Len(P.requests) :
     /\ (i + 1) \div 2 <= Len(P.course_ids)
     /\ P.requests[i].course_id = P.course_ids[(i + 1) \div 2][2]
     /\ P.requests[i].kind = IF i % 2 = 1 THEN "gradebook" ELSE "assessments"

\* The three mappings of a pass whose fetches all succeeded.
ReturnsMappings(P) ==
  LET n == Len(P.course_ids)
      gc == P.result.global_courses
      ga == P.result.global_assessments
      gs == P.result.global_students
  IN /\ P.raised = "none"
     /\ P.ncourses = n
     /\ Len(P.requests) = 2 * n
     /\ DictKeys(gc) = { P.course_ids[i][1] : i \in 1..n }
     /\ \A i \in 1..n :
           /\ DictHas(gc, P.course_ids[i][1])
           /\ courses[DictGet(gc, P.course_ids[i][1])].course_code = P.course_ids[i][1]
           /\ courses[DictGet(gc, P.course_ids[i][1])].course_id = P.course_ids[i][2]
     /\ \A k \in DictKeys(ga) : assessments[DictGet(ga, k)].assessment_id = k
     /\ \A k \in DictKeys(gs) : students[DictGet(gs, k)].user_id = k
     /\ DictKeys(gs) =
          UNION { RosterIds(net.gradebook[P.course_ids[i][2]].body) : i \in 1..n }

FetchDataAsClaimed(P) ==
  /\ RequestsInOrder(P)
  /\ AllOK(P.course_ids) => ReturnsMappings(P)

\* C5 (as claimed): fetch_data constructs one Course per entry, fetches the
\* roster and then the assessments of each course in the order of
\* course_ids, and when every fetch succeeds returns the courses keyed by
\* course_code, the assessments by assessment_id, the students by user_id.
C5_FetchDataOneCoursePerEntryInOrder ==
  \A p \in 1..Len(passes) : FetchDataAsClaimed(passes[p])

\* What C5 claims holds of the fetch_data of student.py.
FetchDataAsClaimedInStudentPy ==
  variant = "pl_viz" => \A p \in 1..Len(passes) : FetchDataAsClaimed(passes[p])

Memberships(s) ==
  { <<courses[students[s].courses[i]].course_code,
      courses[students[s].courses[i]].course_id>> :
      i \in 1..Len(students[s].courses) }

\* The registered students of a pass by value: attributes and memberships.
StudentView(P) ==
  { [user_id |-> k,
     user_name |-> students[DictGet(P.result.global_students, k)].user_name,
     user_uid |-> students[DictGet(P.result.global_students, k)].user_uid,
     token |-> students[DictGet(P.result.global_students, k)].token,
     grades |-> students[DictGet(P.result.global_students, k)].grades,
     memberships |-> Memberships(DictGet(P.result.global_students, k))] :
     k \in DictKeys(P.result.global_students) }

\* The registered assessments of a pass by value.
AssessmentView(P) ==
  { assessments[DictGet(P.result.global_assessments, k)] :
     k \in DictKeys(P.result.global_assessments) }

Permutation(a, b) == Len(a) = Len(b) /\ Range(a) = Range(b)

\* Assessment ids are course-scoped, as the data model has it: no
\* assessment_id is on the lists of two courses.
AssessmentIdsCourseScoped(course_ids) ==
  \A i \in 1..Len(course_ids), j \in 1..Len(course_ids) :
     LET a == course_ids[i][2]
         b == course_ids[j][2]
     IN a # b =>
          \A x \in Range(net.assessments[a].body),
             y \in Range(net.assessments[b].body) :
             x.assessment_id # y.assessment_id

\* A user_id on the rosters of two courses has the same row on both.
StudentRowsAgree(course_ids) ==
  \A i \in 1..Len(course_ids), j \in 1..Len(course_ids) :
     LET a == course_ids[i][2]
         b == course_ids[j][2]
     IN a # b =>
          \A x \in Range(net.gradebook[a].body), y \in Range(net.gradebook[b].body) :
             x.user_id = y.user_id => x = y

SameResult(P, Q) ==
  /\ DictKeys(P.result.global_students) = DictKeys(Q.result.global_students)
  /\ DictKeys(P.result.global_assessments) = DictKeys(Q.result.global_assessments)
  /\ StudentView(P) = StudentView(Q)
  /\ AssessmentView(P) = AssessmentView(Q)

RowsAgree(course_ids) ==
  AssessmentIdsCourseScoped(course_ids) /\ StudentRowsAgree(course_ids)

ReturnedCourses(P) == Range(DictValues(P.result.global_courses))

ReturnedStudents(P) == Range(DictValues(P.result.global_students))

ReturnedAssessments(P) == Range(DictValues(P.result.global_assessments))

\* No object is returned by two passes, and a pass registers only ids its
\* own responses carry.
PassesShareNothing ==
  /\ \A p \in 1..Len(passes), q \in 1..Len(passes) :
        p # q =>
          /\ ReturnedCourses(passes[p]) \cap ReturnedCourses(passes[q]) = {}
          /\ ReturnedStudents(passes[p]) \cap ReturnedStudents(passes[q]) = {}
          /\ ReturnedAssessments(passes[p]) \cap ReturnedAssessments(passes[q]) = {}
  /\ \A p \in 1..Len(passes) :
        DictKeys(passes[p].result.global_students) \subseteq
          UNION { RosterIds(net.gradebook[passes[p].course_ids[i][2]].body) :
                    i \in 1..Len(passes[p].course_ids) }

\* A step leaves every object that exists, and every earlier result, as it is.
EarlierObjectsUntouched ==
  /\ \A i \in 1..Len(courses) : courses'[i] = courses[i]
  /\ \A i \in 1..Len(students) : students'[i] = students[i]
  /\ \A i \in 1..Len(assessments) : assessments'[i] = assessments[i]
  /\ \A p \in 1..Len(passes) : passes'[p] = passes[p]

ScoredAt(body) ==
  { i \in 1..Len(body) :
      \E j \in 1..Len(body[i]) :
         body[i][j][1] = "score_perc" /\ body[i][j][2] # None }

\* The score_perc at place i.
ScorePerc(body, i) ==
  body[i][CHOOSE j \in 1..Len(body[i]) : body[i][j][1] = "score_perc"][2]

\* scores is the subsequence of the scored places, in order.
IsScoredSubsequence(scores, body) ==
  /\ Len(scores) = Cardinality(ScoredAt(body))
  /\ \A i \in ScoredAt(body) :
        scores[Cardinality({ m \in ScoredAt(body) : m <= i })] = ScorePerc(body, i)

\* C9: after a fetch_submissions that succeeded, scores is the subsequence
\* of the response's score_perc values that are present and not None, in
\* response order, whatever scores held before: [80, None, 60, 100] gives
\* [80, 60, 100].
C9_ScoresAreTheScoredSubsequence ==
  (calls # <<>> /\ LastCall.op = "fetch_submissions" /\ LastCall.raised = "none") =>
    /\ LastCall.resp.status = HTTP_OK
    /\ IsScoredSubsequence(assessments[LastCall.assessment].scores,
                           LastCall.resp.body)
    /\ \A i \in 1..Len(assessments[LastCall.assessment].scores) :
          assessments[LastCall.assessment].scores[i] # None
    /\ LastCall.resp.body = ExampleSubmissions =>
          assessments[LastCall.assessment].scores = <<80, 60, 100>>

\* C9 witness: [80, None, 60, 100] was fetched into an Assessment that held
\* other scores.
C9_Witness ==
  /\ calls # <<>>
  /\ LastCall.op = "fetch_submissions" /\ LastCall.raised = "none"
  /\ LastCall.resp.body = ExampleSubmissions
  /\ LastCall.before = <<0, 80>>

\* C9 witness of the other cases: a missing key and a None dropped, a zero
\* kept.
C9_WitnessZeroKept ==
  /\ calls # <<>>
  /\ LastCall.raised = "none"
  /\ LastCall.resp.body = << Unscored, Scored(0) >>
  /\ assessments[1].scores = << 0 >>

\* C10: a fetch_submissions whose request returns a status other than 200
\* raises and leaves the Assessment, its scores and its submissions_fetched
\* flag among the rest, as it was.
C10_FetchSubmissionsFailureKeepsScores ==
  [][ (calls' # calls /\ LastCall'.op = "fetch_submissions"
         /\ LastCall'.resp.status # HTTP_OK) =>
        /\ LastCall'.raised = "ValueError"
        /\ assessments' = assessments ]_vars

\* C10 witness: the request failed on an Assessment that held scores.
C10_Witness ==
  /\ calls # <<>>
  /\ LastCall.op = "fetch_submissions"
  /\ LastCall.resp.status # HTTP_OK /\ LastCall.raised = "ValueError"
  /\ LastCall.before # <<>>
  /\ assessments[LastCall.assessment].scores = LastCall.before

(* ------------------ Assessment.get_summary_statistics ----------------- *)

\* Significant bits of a float.  CPython's float carries 53; the model
\* keeps the rounding rule (to nearest, ties to even) on a shorter
\* significand, so that a score with a full significand is a small number.
Precision == 12

\* A score is a non-negative integer n standing for the Python number n; a
\* quotient is a pair <<num, den>>, den a power of two, in lowest terms.
RECURSIVE ShiftDown(_, _, _)
ShiftDown(a, b, t) ==
  IF a < b * 2^Precision * 2^t THEN t ELSE ShiftDown(a, b, t + 1)

RECURSIVE ShiftUp(_, _, _)
ShiftUp(a, b, s) ==
  IF a * 2^s >= b * 2^(Precision - 1) THEN s ELSE ShiftUp(a, b, s + 1)

RoundHalfEven(x, y) ==
  LET q == x \div y
      r == x % y
  IN IF 2 * r > y \/ (2 * r = y /\ q % 2 = 1) THEN q + 1 ELSE q

RECURSIVE Lowest(_, _)
Lowest(n, d) ==
  IF d > 1 /\ n % 2 = 0 THEN Lowest(n \div 2, d \div 2) ELSE <<n, d>>

\* a / b in float arithmetic: the quotient rounded to Precision bits.
FloatDiv(a, b) ==
  IF a = 0 THEN <<0, 1>>
  ELSE LET t == ShiftDown(a, b, 0)
           s == ShiftUp(a, b, 0)
       IN Lowest(RoundHalfEven(a * 2^s, b * 2^t) * 2^t, 2^s)

\* a + b in float arithmetic; exact while the sum fits Precision bits, as
\* the sum of two Python ints is.
FloatAdd(a, b) == FloatDiv(a + b, 1)[1]

\* sum(scores): additions from the left, starting at 0.
RECURSIVE SumFrom(_, _)
SumFrom(acc, scores) ==
  IF scores = <<>> THEN acc
  ELSE SumFrom(FloatAdd(acc, Head(scores)), Tail(scores))

\* sum(scores) in exact arithmetic.
RECURSIVE ExactSum(_)
ExactSum(scores) ==
  IF scores = <<>> THEN 0 ELSE Head(scores) + ExactSum(Tail(scores))

sum(scores) == SumFrom(0, scores)

max(scores) == CHOOSE x \in Range(scores) : \A y \in Range(scores) : y <= x

min(scores) == CHOOSE x \in Range(scores) : \A y \in Range(scores) : x <= y

\* sorted(data)
RECURSIVE Insert(_, _)
Insert(x, sortedSeq) ==
  IF sortedSeq = <<>> THEN << x >>
  ELSE IF x <= Head(sortedSeq) THEN << x >> \o sortedSeq
  ELSE << Head(sortedSeq) >> \o Insert(x, Tail(sortedSeq))

RECURSIVE sorted(_)
sorted(data) ==
  IF data = <<>> THEN <<>> ELSE Insert(Head(data), sorted(Tail(data)))

\* statistics.median(data) of a non-empty data: the middle element of the
\* sorted data, or the mean of the two middle elements.
median(data) ==
  LET d == sorted(data)
      n == Len(d)
      i == n \div 2
  IN IF n % 2 = 1 THEN << d[i + 1], 1 >>
     ELSE FloatDiv(FloatAdd(d[i], d[i + 1]), 2)

\* The record get_summary_statistics returns for non-empty scores.
SummaryRecord(scores) ==
  [num_submissions |-> Len(scores),
   mean_score      |-> FloatDiv(sum(scores), Len(scores)),
   median_score    |-> median(scores),
   max_score       |-> max(scores),
   min_score       |-> min(scores)]

\* The record the legacy method returns for fetched, empty scores.
EmptySummaryRecord ==
  [num_submissions |-> 0, mean_score |-> None, median_score |-> None,
   max_score |-> None, min_score |-> None]

\* What a call returned: nothing (it raised), None, or a record.
Raises == [kind |-> "nothing", value |-> <<>>]

ReturnsNone == [kind |-> "None", value |-> <<>>]

Returns(rec) == [kind |-> "record", value |-> rec]

\* The outcome of get_summary_statistics: the world it leaves (raised says
\* which exception ended it), the message of the exception or the print,
\* and what it returned.
Outcome(world, message, returned) ==
  [world |-> world, message |-> message, returned |-> returned]

FetchFailedMessage == "Failed to fetch submissions"

NoScoresMessage == "No scores available to compute statistics."

FetchFirstMessage == "Please fetch submissions for this assessment first!"

\* Assessment.get_summary_statistics.  pl_api.py and assessment.py fetch the
\* submissions when scores is empty; pl_api.py then raises on empty scores,
\* assessment.py divides by len(scores); the legacy method fetches nothing.
get_summary_statistics(v, st, a, token, resp) ==
  IF v = "legacy"
    THEN IF ~st.assessments[a].submissions_fetched
           THEN Outcome(st, FetchFirstMessage, ReturnsNone)
         ELSE IF st.assessments[a].scores = <<>>
           THEN Outcome(st, "", Returns(EmptySummaryRecord))
         ELSE Outcome(st, "", Returns(SummaryRecord(st.assessments[a].scores)))
  ELSE
    LET fetched == IF st.assessments[a].scores = <<>>
                     THEN fetch_submissions(v, st, a, token, resp)
                     ELSE st
        scores == fetched.assessments[a].scores
    IN IF fetched.raised # "none"
         THEN Outcome(fetched, FetchFailedMessage, Raises)
       ELSE IF scores = <<>>
         THEN IF v = "pl_api"
                THEN Outcome([fetched EXCEPT !.raised = "ValueError"],
                             NoScoresMessage, Raises)
                ELSE Outcome([fetched EXCEPT !.raised = "ZeroDivisionError"],
                             "division by zero", Raises)
       ELSE Outcome(fetched, "", Returns(SummaryRecord(scores)))

(* -------- SpecStat: submissions and statistics of one Assessment ------ *)

\* Scores in one response of SpecStat.
MaxScores == 3

\* 2734 needs all Precision bits of the significand, as 99.9 does in a
\* CPython float.
ScoreValues == {0, 80, 2734}

RECURSIVE ScoredAll(_)
ScoredAll(xs) ==
  IF xs = <<>> THEN <<>> ELSE << Scored(Head(xs)) >> \o ScoredAll(Tail(xs))

\* Bodies without a score (no submission; none of them scored) and bodies
\* of 1..MaxScores scored submissions.
StatBodies ==
  { <<>>, << Scored(None), Unscored >> } \cup
  { ScoredAll(xs) : xs \in UNION { [1..n -> ScoreValues] : n \in 1..MaxScores } }

StatResponses ==
  { Response(HTTP_OK, b) : b \in StatBodies } \cup
  { Response(s, << Scored(80) >>) : s \in Statuses \ {HTTP_OK} }

\* A call of get_summary_statistics: as AssessmentCall, with the message,
\* what was returned and the requests the call sent.
SummaryCall(a, resp, out, before) ==
  [op |-> "get_summary_statistics", assessment |-> a, resp |-> resp,
   raised |-> out.world.raised, before |-> before,
   message |-> out.message, returned |-> out.returned,
   requests |-> out.world.requests]

\* assessment.get_summary_statistics(); the response is that of the request
\* the call sends, if it sends one.
GetSummaryStatistics(a, resp) ==
  /\ LET out == get_summary_statistics(variant, Here, a, Credential, resp)
     IN /\ (out.world.requests = <<>>) => (resp = NoResponse)
        /\ (out.world.requests # <<>>) => (resp \in StatResponses)
        /\ assessments' = out.world.assessments
        /\ calls' = << SummaryCall(a, resp, out, assessments[a].scores) >>
  /\ UNCHANGED <<variant, courses, students, global_students,
                 global_assessments, net, passes>>

NextStat ==
  \/ \E a \in 1..Len(assessments), resp \in StatResponses :
        FetchSubmissions(a, resp)
  \/ \E a \in 1..Len(assessments), resp \in StatResponses \cup {NoResponse} :
        GetSummaryStatistics(a, resp)

SpecStat == InitSub /\ [][NextStat]_vars

(* --------------------- claims on get_summary_statistics --------------- *)

\* The latest call was get_summary_statistics on an Assessment whose
\* submissions were fetched (before the call or by it) and gave no score.
SummaryOfEmptyFetch ==
  /\ calls # <<>>
  /\ LastCall.op = "get_summary_statistics"
  /\ assessments[LastCall.assessment].scores = <<>>
  /\ LastCall.message # FetchFailedMessage
  /\ (variant = "legacy") => assessments[LastCall.assessment].submissions_fetched

RaisedNoData ==
  /\ LastCall.raised = "ValueError"
  /\ LastCall.message = NoScoresMessage
  /\ LastCall.returned.kind = "nothing"

\* C11: get_summary_statistics on an Assessment whose fetched submissions
\* gave no score raises the no-data error in every variant: it returns no
\* record and raises no other error.
C11_EmptyScoresRaiseNoData == SummaryOfEmptyFetch => RaisedNoData

\* pl_api.py does as C11 says.
EmptyScoresRaiseNoDataInPlApi ==
  (variant = "pl_api" /\ SummaryOfEmptyFetch) => RaisedNoData

\* assessment.py divides by zero, the legacy method returns a record.
EmptyScoresElsewhere ==
  (variant # "pl_api" /\ SummaryOfEmptyFetch) =>
     \/ variant = "pl_viz" /\ LastCall.raised = "ZeroDivisionError"
     \/ variant = "legacy" /\ LastCall.raised = "none"
          /\ LastCall.returned.kind = "record"
          /\ LastCall.returned.value.num_submissions = 0

\* The latest call was get_summary_statistics and returned the record of
\* non-empty scores.
SummaryReturned ==
  /\ calls # <<>>
  /\ LastCall.op = "get_summary_statistics"
  /\ LastCall.returned.kind = "record"
  /\ assessments[LastCall.assessment].scores # <<>>

\* The scores in non-decreasing order.
InOrder(scores) ==
  CHOOSE d \in [1..Len(scores) -> Range(scores)] :
     /\ \A i \in 1..(Len(d) - 1) : d[i] <= d[i + 1]
     /\ \A x \in Range(scores) :
           Cardinality({ i \in 1..Len(d) : d[i] = x }) =
           Cardinality({ i \in 1..Len(scores) : scores[i] = x })

CountMaxMinAsClaimed(scores, r) ==
  /\ r.num_submissions = Len(scores)
  /\ r.max_score \in Range(scores) /\ \A x \in Range(scores) : x <= r.max_score
  /\ r.min_score \in Range(scores) /\ \A x \in Range(scores) : r.min_score <= x

MedianAsClaimed(scores, r) ==
  LET d == InOrder(scores)
      n == Len(d)
  IN IF n % 2 = 1
       THEN r.median_score[1] = d[(n + 1) \div 2] * r.median_score[2]
       ELSE 2 * r.median_score[1] = (d[n \div 2] + d[n \div 2 + 1]) * r.median_score[2]

\* min_score <= mean_score <= max_score
MeanWithinMinMax(r) ==
  /\ r.min_score * r.mean_score[2] <= r.mean_score[1]
  /\ r.mean_score[1] <= r.max_score * r.mean_score[2]

\* mean_score is the float of sum / count.
MeanIsQuotient(scores, r) ==
  r.mean_score = FloatDiv(ExactSum(scores), Len(scores))

\* C12: for non-empty scores get_summary_statistics returns num_submissions
\* = the length, max_score and min_score = the largest and the smallest
\* element, mean_score = sum / count with min_score <= mean_score <=
\* max_score, and median_score = the middle element of the sorted scores
\* (the average of the two middle elements for an even length).
C12_SummaryStatisticsAsClaimed ==
  SummaryReturned =>
    LET scores == assessments[LastCall.assessment].scores
        r == LastCall.returned.value
    IN /\ CountMaxMinAsClaimed(scores, r)
       /\ MeanIsQuotient(scores, r)
       /\ MeanWithinMinMax(r)
       /\ MedianAsClaimed(scores, r)

\* Count, max, min and median are as C12 says.
SummaryCountMaxMinMedian ==
  SummaryReturned =>
    /\ CountMaxMinAsClaimed(assessments[LastCall.assessment].scores,
                            LastCall.returned.value)
    /\ MedianAsClaimed(assessments[LastCall.assessment].scores,
                       LastCall.returned.value)

\* The mean lies between min and max (C12's part that fails).
SummaryMeanWithinMinMax ==
  SummaryReturned => MeanWithinMinMax(LastCall.returned.value)

\* The mean of scores below 2^Precision / MaxScores, whose sums are exact,
\* lies between min and max.
SummaryMeanWithinMinMaxWhenSumExact ==
  (SummaryReturned /\
     \A i \in 1..Len(assessments[1].scores) : assessments[1].scores[i] <= 100) =>
       /\ MeanWithinMinMax(LastCall.returned.value)
       /\ MeanIsQuotient(assessments[1].scores, LastCall.returned.value)

(* ------------------------ Student.fetch_all_grades -------------------- *)

\* An entry of a gradebook row's assessments, and a gradebook row with its
\* entries.
GradeEntry(i, n, l, score) ==
  [assessment_id |-> i, assessment_name |-> n, assessment_label |-> l,
   score_perc |-> score]

GradedRow(i, n, u, entries) ==
  [user_id |-> i, user_name |-> n, user_uid |-> u, assessments |-> entries]

\* The dict fetch_all_grades appends for one entry.
GradeRecord(course, assessment) ==
  [course_code      |-> course.course_code,
   course_id        |-> course.course_id,
   assessment_id    |-> assessment.assessment_id,
   assessment_name  |-> assessment.assessment_name,
   assessment_label |-> assessment.assessment_label,
   score_perc       |-> assessment.score_perc]

\* next((student for student in gradebook_data if student["user_id"] ==
\* self.user_id), None): the places of the student's rows; the first is taken.
RowsOf(gradebook_data, user_id) ==
  { i \in 1..Len(gradebook_data) : gradebook_data[i].user_id = user_id }

FirstOf(places) == CHOOSE i \in places : \A j \in places : i <= j

\* The records of one course's gradebook for the student.
course_grades(course, gradebook_data, user_id) ==
  IF RowsOf(gradebook_data, user_id) = {} THEN <<>>
  ELSE LET student_data == gradebook_data[FirstOf(RowsOf(gradebook_data, user_id))]
       IN [j \in 1..Len(student_data.assessments) |->
             GradeRecord(course, student_data.assessments[j])]

FetchGradebookFailedMessage == "Failed to fetch gradebook"

\* The loop of fetch_all_grades from the k-th course on; acc carries the
\* world, the local list grades and the last message.  resps[k] answers the
\* request for the k-th course.  pl_api.py raises on a status other than
\* 200; student.py and the legacy class print and go on.
RECURSIVE grades_loop(_, _, _, _, _, _)
grades_loop(v, acc, s, token, resps, k) ==
  LET S == acc.world.students[s]
  IN IF k > Len(S.courses) \/ acc.world.raised # "none" THEN acc
     ELSE
       LET course == acc.world.courses[S.courses[k]]
           sent == [acc.world EXCEPT !.requests =
                      Append(@, Request("gradebook", course.course_id, 0,
                                        IF v = "legacy" THEN token ELSE S.token))]
           response == IF k <= Len(resps) THEN resps[k] ELSE NoResponse
       IN grades_loop(v,
            IF response.status = HTTP_OK
              THEN [acc EXCEPT !.world = sent,
                               !.grades = @ \o course_grades(course, response.body,
                                                             S.user_id)]
            ELSE IF v = "pl_api"
              THEN [acc EXCEPT !.world = [sent EXCEPT !.raised = "ValueError"],
                               !.message = FetchGradebookFailedMessage]
            ELSE [acc EXCEPT !.world = sent,
                             !.message = FetchGradebookFailedMessage],
            s, token, resps, k + 1)

\* fetch_all_grades appending to self.grades instead of assigning it.
fetch_all_grades_additive(v, st, s, token, resps) ==
  LET done == grades_loop(v, [world |-> st, grades |-> <<>>, message |-> ""],
                          s, token, resps, 1)
  IN IF done.world.raised # "none"
       THEN Outcome(done.world, done.message, Raises)
       ELSE Outcome([done.world EXCEPT !.students[s].grades = @ \o done.grades],
                    done.message, Returns(done.grades))

\* Student.fetch_all_grades: self.grades = grades; return grades.
fetch_all_grades(v, st, s, token, resps) ==
  LET done == grades_loop(v, [world |-> st, grades |-> <<>>, message |-> ""],
                          s, token, resps, 1)
  IN IF done.world.raised # "none"
       THEN Outcome(done.world, done.message, Raises)
       ELSE Outcome([done.world EXCEPT !.students[s].grades = done.grades],
                    done.message, Returns(done.grades))

(* --------------------------- Student.plot_grades ---------------------- *)

\* The argument course_code or assessment_label: None, a str or a list.
NoFilter == [kind |-> "None", items |-> <<>>]

StrFilter(x) == [kind |-> "str", items |-> << x >>]

ListFilter(xs) == [kind |-> "list", items |-> xs]

\* if isinstance(course_code, str): course_code = [course_code]
as_list(f) == IF f.kind = "str" THEN ListFilter(<< f.items[1] >>) ELSE f

\* course_code is None or grade["course_code"] in course_code
Passes(f, x) == f.kind = "None" \/ x \in Range(f.items)

\* grades_to_plot keeping a grade that passes either filter.
grades_to_plot_either(grades, course_code, assessment_label) ==
  SelectSeq(grades,
            LAMBDA grade : \/ Passes(course_code, grade.course_code)
                           \/ Passes(assessment_label, grade.assessment_label))

\* grades_to_plot = [grade for grade in self.grades if ... and ...]
grades_to_plot(grades, course_code, assessment_label) ==
  SelectSeq(grades,
            LAMBDA grade : /\ Passes(course_code, grade.course_code)
                           /\ Passes(assessment_label, grade.assessment_label))

\* df["score_perc"] = df["score_perc"].fillna(0): the rows of the chart.
fillna(rows) ==
  [i \in 1..Len(rows) |->
     [rows[i] EXCEPT !.score_perc = IF @ = None THEN 0 ELSE @]]

NoGradesFoundMessage == "No grades found"

NoGradesAvailableMessage == "No grades available"

\* The outcome of plot_grades: the world, the message raised or printed,
\* the rows selected and the rows of the chart displayed (none: no chart).
PlotOutcome(world, message, selected, chart) ==
  [world |-> world, message |-> message, selected |-> selected, chart |-> chart]

\* Student.plot_grades.  pl_api.py and student.py fetch the grades when there
\* are none, the legacy method prints and returns; on an empty selection
\* pl_api.py raises, the others print and return.
plot_grades(v, st, s, token, course_code, assessment_label, resps) ==
  IF v = "legacy" /\ st.students[s].grades = <<>>
    THEN PlotOutcome(st, NoGradesAvailableMessage, <<>>, <<>>)
  ELSE
    LET fetched == IF st.students[s].grades = <<>>
                     THEN fetch_all_grades(v, st, s, token, resps)
                     ELSE Outcome(st, "", ReturnsNone)
        selected == grades_to_plot(fetched.world.students[s].grades,
                                   as_list(course_code), as_list(assessment_label))
    IN IF fetched.world.raised # "none"
         THEN PlotOutcome(fetched.world, fetched.message, <<>>, <<>>)
       ELSE IF selected = <<>>
         THEN PlotOutcome(IF v = "pl_api"
                            THEN [fetched.world EXCEPT !.raised = "ValueError"]
                            ELSE fetched.world,
                          NoGradesFoundMessage, <<>>, <<>>)
       ELSE PlotOutcome(fetched.world, fetched.message, selected, fillna(selected))

(* ------------- SpecGrades: the grades of one Student ------------------ *)

\* Gradebook bodies: no row for student 7; student 7's row after another
\* student's, one of its scores None; student 7 on two rows.
GradeBodies ==
  { << GradedRow(8, "C", "c@ubc.ca", << GradeEntry(1, "HW1", "hw", 50) >>) >>,
    << GradedRow(8, "C", "c@ubc.ca", << GradeEntry(1, "HW1", "hw", 50) >>),
       GradedRow(7, "A", "a@ubc.ca", << GradeEntry(1, "HW1", "hw", 90),
                                        GradeEntry(2, "Quiz", "quiz", None) >>) >>,
    << GradedRow(7, "A", "a@ubc.ca", << GradeEntry(3, "HW2", "hw", 70) >>),
       GradedRow(7, "A", "a@ubc.ca", << GradeEntry(4, "Lab", "lab", 10) >>) >> }

GradeResponses ==
  { Response(HTTP_OK, b) : b \in GradeBodies } \cup
  { Response(s, << GradedRow(7, "A", "a@ubc.ca",
                             << GradeEntry(1, "HW1", "hw", 90) >>) >>)
      : s \in Statuses \ {HTTP_OK} }

CourseFilters ==
  { NoFilter, StrFilter("CS101"), StrFilter("PHYS100"),
    ListFilter(<< "MATH201", "CS101" >>) }

LabelFilters == { NoFilter, StrFilter("hw"), ListFilter(<< "quiz", "lab" >>) }

\* A call on a Student: its arguments, the responses to the requests it
\* sent, its outcome, and the grades the Student held before it.
StudentCall(op, s, course_code, assessment_label, resps, world, message, returned, selected, chart, before) ==
  [op |-> op, student |-> s, course_code |-> course_code,
   assessment_label |-> assessment_label, resps |-> resps,
   raised |-> world.raised, requests |-> world.requests, message |-> message,
   returned |-> returned, selected |-> selected, chart |-> chart,
   before |-> before]

InitGrades ==
  /\ variant \in Variants
  /\ courses = << Course("CS101", 1001, Credential),
                  Course("MATH201", 1002, Credential) >>
  /\ students = << Student(7, "A", "a@ubc.ca", StoredToken(variant, Credential)) >>
  /\ assessments = <<>>
  /\ global_students = <<>>
  /\ global_assessments = <<>>
  /\ calls = <<>>
  /\ net = NoNet
  /\ passes = <<>>

\* The response lists a call may be answered with: one response for each
\* request it sends.
ResponseLists(s) ==
  UNION { [1..n -> GradeResponses] : n \in 0..Len(students[s].courses) }

\* student.add_course(course); calls keeps the latest call only.
AddCourseToStudent(s, c) ==
  /\ students' = add_course(students, s, c)
  /\ calls' = << StudentCall("add_course", s, NoFilter, NoFilter, <<>>, Here,
                             "", ReturnsNone, <<>>, <<>>, students[s].grades) >>
  /\ UNCHANGED <<variant, courses, assessments, global_students,
                 global_assessments, net, passes>>

\* student.fetch_all_grades()
FetchAllGrades(s, resps) ==
  /\ LET out == fetch_all_grades(variant, Here, s, Credential, resps)
     IN /\ Len(resps) = Len(out.world.requests)
        /\ students' = out.world.students
        /\ calls' = << StudentCall("fetch_all_grades", s, NoFilter, NoFilter,
                                   resps, out.world, out.message, out.returned,
                                   <<>>, <<>>, students[s].grades) >>
  /\ UNCHANGED <<variant, courses, assessments, global_students,
                 global_assessments, net, passes>>

\* student.plot_grades(course_code, assessment_label)
PlotGrades(s, course_code, assessment_label, resps) ==
  /\ LET out == plot_grades(variant, Here, s, Credential, course_code,
                            assessment_label, resps)
     IN /\ Len(resps) = Len(out.world.requests)
        /\ students' = out.world.students
        /\ calls' = << StudentCall("plot_grades", s, course_code,
                                   assessment_label, resps, out.world,
                                   out.message, ReturnsNone, out.selected,
                                   out.chart, students[s].grades) >>
  /\ UNCHANGED <<variant, courses, assessments, global_students,
                 global_assessments, net, passes>>

NextGrades ==
  \/ \E s \in 1..Len(students), c \in 1..Len(courses) : AddCourseToStudent(s, c)
  \/ \E s \in 1..Len(students) : \E resps \in ResponseLists(s) :
        FetchAllGrades(s, resps)
  \/ \E s \in 1..Len(students), course_code \in CourseFilters,
        assessment_label \in LabelFilters :
        \E resps \in ResponseLists(s) :
           PlotGrades(s, course_code, assessment_label, resps)

SpecGrades == InitGrades /\ [][NextGrades]_vars

(* ------------------ claims on fetch_all_grades and plot_grades -------- *)

AllResponsesOK(call) == \A k \in 1..Len(call.resps) : call.resps[k].status = HTTP_OK

\* The records the claim expects of the k-th course of student s: one for
\* each entry of the student's row, none if the roster has no such row.
ExpectedOfCourse(s, k, body) ==
  LET course == courses[students[s].courses[k]]
      mine == { i \in 1..Len(body) : body[i].user_id = students[s].user_id }
  IN IF mine = {} THEN <<>>
     ELSE LET row == body[CHOOSE i \in mine : \A j \in mine : i <= j]
          IN [j \in 1..Len(row.assessments) |->
                [course_code |-> course.course_code,
                 course_id |-> course.course_id,
                 assessment_id |-> row.assessments[j].assessment_id,
                 assessment_name |-> row.assessments[j].assessment_name,
                 assessment_label |-> row.assessments[j].assessment_label,
                 score_perc |-> row.assessments[j].score_perc]]

RECURSIVE ExpectedFrom(_, _, _)
ExpectedFrom(s, k, resps) ==
  IF k > Len(resps) THEN <<>>
  ELSE ExpectedOfCourse(s, k, resps[k].body) \o ExpectedFrom(s, k + 1, resps)

\* C13: after a fetch_all_grades that succeeded, grades holds the records of
\* this call only: for each course of the student, in order, one record per
\* assessment entry of the student's roster row, in row order, with that
\* course's course_code and course_id; a course whose roster has no row for
\* the student contributes nothing and raises nothing.
C13_GradesReplacedByThisCall ==
  (calls # <<>> /\ LastCall.op = "fetch_all_grades" /\ AllResponsesOK(LastCall)) =>
    /\ LastCall.raised = "none"
    /\ Len(LastCall.resps) = Len(students[LastCall.student].courses)
    /\ students[LastCall.student].grades =
         ExpectedFrom(LastCall.student, 1, LastCall.resps)
    /\ LastCall.returned = Returns(students[LastCall.student].grades)

\* C13 witness: a Student on two courses that held grades fetched again; the
\* first roster has no row for it, the second has one.
C13_Witness ==
  /\ calls # <<>>
  /\ LastCall.op = "fetch_all_grades" /\ AllResponsesOK(LastCall)
  /\ Len(students[LastCall.student].courses) = 2
  /\ LastCall.before # <<>>
  /\ \A i \in 1..Len(LastCall.resps[1].body) : LastCall.resps[1].body[i].user_id # 7
  /\ Len(students[LastCall.student].grades) = 2
  /\ students[LastCall.student].grades # LastCall.before

\* C14: when the gradebook request of one of the student's courses returns a
\* status other than 200, fetch_all_grades raises and leaves grades as they
\* were before the call, in every variant.
C14_FetchAllGradesFailureKeepsGrades ==
  (calls # <<>> /\ LastCall.op = "fetch_all_grades" /\ ~AllResponsesOK(LastCall)) =>
    /\ LastCall.raised = "ValueError"
    /\ LastCall.message = FetchGradebookFailedMessage
    /\ students[LastCall.student].grades = LastCall.before

\* pl_api.py does as C14 says.
FetchAllGradesFailureKeepsGradesInPlApi ==
  variant = "pl_api" => C14_FetchAllGradesFailureKeepsGrades

\* student.py and the legacy class raise nothing and store the records of
\* the courses whose requests succeeded.
FetchAllGradesFailureElsewhere ==
  (variant # "pl_api" /\ calls # <<>> /\ LastCall.op = "fetch_all_grades"
     /\ ~AllResponsesOK(LastCall)) =>
    /\ LastCall.raised = "none"
    /\ LastCall.message = FetchGradebookFailedMessage
    /\ Len(LastCall.resps) = Len(students[LastCall.student].courses)
    /\ LastCall.returned = Returns(students[LastCall.student].grades)

\* The places of grades that pass both filters of a call.
PassingAt(grades, call) ==
  { i \in 1..Len(grades) :
      /\ call.course_code.kind = "None"
           \/ \E j \in 1..Len(call.course_code.items) :
                 call.course_code.items[j] = grades[i].course_code
      /\ call.assessment_label.kind = "None"
           \/ \E j \in 1..Len(call.assessment_label.items) :
                 call.assessment_label.items[j] = grades[i].assessment_label }

\* C15: the rows plot_grades selects are the subsequence of grades whose
\* course_code is in the course filter and whose assessment_label is in the
\* label filter, in the original order, a filter that is None restricting
\* nothing; the filter "CS101" selects the CS101 rows only.
C15_SelectedRowsAreTheFilteredSubsequence ==
  (calls # <<>> /\ LastCall.op = "plot_grades") =>
    LET grades == students[LastCall.student].grades
        at == PassingAt(grades, LastCall)
    IN /\ LastCall.raised = "none" => 
            /\ Len(LastCall.selected) = Cardinality(at)
            /\ \A i \in at :
                  LastCall.selected[Cardinality({ m \in at : m <= i })] = grades[i]
       /\ LastCall.course_code = StrFilter("CS101") =>
            \A j \in 1..Len(LastCall.selected) :
               LastCall.selected[j].course_code = "CS101"

\* C15 witness: grades of two courses, the filter "CS101" and a label filter
\* select some rows and leave others out.
C15_Witness ==
  /\ calls # <<>>
  /\ LastCall.op = "plot_grades" /\ LastCall.raised = "none"
  /\ LastCall.course_code = StrFilter("CS101")
  /\ LastCall.assessment_label = StrFilter("hw")
  /\ \E i \in 1..Len(students[1].grades) : students[1].grades[i].course_code = "MATH201"
  /\ \E i \in 1..Len(students[1].grades) :
        /\ students[1].grades[i].course_code = "CS101"
        /\ students[1].grades[i].assessment_label = "quiz"
  /\ LastCall.selected # <<>>

\* The latest call was plot_grades and no request of it failed.
Plotted ==
  /\ calls # <<>>
  /\ LastCall.op = "plot_grades"
  /\ AllResponsesOK(LastCall)

\* C16: plot_grades called while grades is empty first fetches the grades;
\* it then raises the no-data error and shows no chart if grades is still
\* empty or if no row is selected; with grades non-empty it sends no request.
C16_PlotGradesFetchesThenFailsOnNoData ==
  Plotted =>
    /\ LastCall.before = <<>> =>
          Len(LastCall.requests) = Len(students[LastCall.student].courses)
    /\ LastCall.before # <<>> => LastCall.requests = <<>>
    /\ (students[LastCall.student].grades = <<>> \/ LastCall.selected = <<>>) =>
          /\ LastCall.raised = "ValueError"
          /\ LastCall.message = NoGradesFoundMessage
          /\ LastCall.chart = <<>>

\* pl_api.py does as C16 says.
PlotGradesFetchesThenFailsInPlApi ==
  variant = "pl_api" => C16_PlotGradesFetchesThenFailsOnNoData

\* student.py fetches, prints and returns; the legacy method does not fetch.
PlotGradesElsewhere ==
  (variant # "pl_api" /\ Plotted) =>
    /\ LastCall.raised = "none"
    /\ LastCall.before # <<>> => LastCall.requests = <<>>
    /\ variant = "legacy" => LastCall.requests = <<>>
    /\ (variant = "pl_viz" /\ LastCall.before = <<>>) =>
          Len(LastCall.requests) = Len(students[LastCall.student].courses)
    /\ LastCall.selected = <<>> => LastCall.chart = <<>>

(* ------------------------------ find_students ------------------------- *)

\* An argument's truth value: None, "" and [] are false.
Truthy(arg) ==
  /\ arg.kind # "None"
  /\ arg.items # <<>>
  /\ arg.kind = "str" => arg.items[1] # ""

\* The values find_students stores under a key: None, one Student, or the
\* list of the matching Students.
NoStudent == [kind |-> "None", refs |-> <<>>]

OneStudent(s) == [kind |-> "Student", refs |-> << s >>]

ManyStudents(ss) == [kind |-> "list", refs |-> ss]

InvalidArgumentMessage == "You must provide either user_names or cwls, but not both."

\* [student for student in global_students.values() if student.user_name == name]
name_matches(st, name) ==
  SelectSeq(DictValues(st.gs), LAMBDA s : st.students[s].user_name = name)

\* The value stored under a name, were the first match taken for several.
name_result_first(st, name) ==
  LET matches == name_matches(st, name)
  IN IF Len(matches) >= 1 THEN OneStudent(matches[1]) ELSE NoStudent

\* The value stored under a name.
name_result(st, name) ==
  LET matches == name_matches(st, name)
  IN IF Len(matches) = 1 THEN OneStudent(matches[1])
     ELSE IF Len(matches) > 1 THEN ManyStudents(matches)
     ELSE NoStudent

\* user_uid = f"{cwl}@ubc.ca", left as the cwl itself.
user_uid_bare(cwl) == cwl

\* user_uid = f"{cwl}@ubc.ca"
user_uid_of(cwl) == cwl \o "@ubc.ca"

\* next((student for student in global_students.values()
\*       if student.user_uid == user_uid), None), and the value stored.
cwl_result(st, cwl) ==
  LET found == SelectSeq(DictValues(st.gs),
                         LAMBDA s : st.students[s].user_uid = user_uid_of(cwl))
  IN IF found # <<>> THEN OneStudent(found[1]) ELSE NoStudent

RECURSIVE names_loop(_, _, _)
names_loop(st, results, names) ==
  IF names = <<>> THEN results
  ELSE names_loop(st, DictPut(results, Head(names), name_result(st, Head(names))),
                  Tail(names))

RECURSIVE cwls_loop(_, _, _)
cwls_loop(st, results, cwls) ==
  IF cwls = <<>> THEN results
  ELSE cwls_loop(st, DictPut(results, Head(cwls), cwl_result(st, Head(cwls))),
                 Tail(cwls))

\* find_students taking the Students it finds out of the registry.
find_students_taking(st, user_names, cwls) ==
  IF (Truthy(user_names) /\ Truthy(cwls)) \/ (~Truthy(user_names) /\ ~Truthy(cwls))
    THEN Outcome([st EXCEPT !.raised = "ValueError"], InvalidArgumentMessage, Raises)
    ELSE LET by_name == IF Truthy(user_names)
                          THEN names_loop(st, <<>>, as_list(user_names).items)
                          ELSE <<>>
             by_cwl == IF Truthy(cwls)
                         THEN cwls_loop(st, by_name, as_list(cwls).items)
                         ELSE by_name
             found == UNION { Range(DictGet(by_cwl, k).refs) : k \in DictKeys(by_cwl) }
         IN Outcome([st EXCEPT !.gs = SelectSeq(@, LAMBDA e : e[2] \notin found)],
                    "", Returns(by_cwl))

\* find_students(global_students, user_names, cwls)
find_students(st, user_names, cwls) ==
  IF (Truthy(user_names) /\ Truthy(cwls)) \/ (~Truthy(user_names) /\ ~Truthy(cwls))
    THEN Outcome([st EXCEPT !.raised = "ValueError"], InvalidArgumentMessage, Raises)
    ELSE LET by_name == IF Truthy(user_names)
                          THEN names_loop(st, <<>>, as_list(user_names).items)
                          ELSE <<>>
             by_cwl == IF Truthy(cwls)
                         THEN cwls_loop(st, by_name, as_list(cwls).items)
                         ELSE by_name
         IN Outcome(st, "", Returns(by_cwl))

(* --------------- SpecFind: find_students on a registry ---------------- *)

\* Rows of the roster that fills the registry.
MaxRows == 3

\* Two students of one name; two students of one user_uid.
RegistryRows ==
  { Row(7, "A", "a@ubc.ca"), Row(8, "A", "b@ubc.ca"), Row(9, "B", "a@ubc.ca") }

RegistryRosters == UNION { [1..n -> RegistryRows] : n \in 0..MaxRows }

NameArguments ==
  { NoFilter, ListFilter(<<>>), StrFilter("A"), ListFilter(<< "A", "B", "Z" >>),
    ListFilter(<< "A", "Z", "A" >>) }

CwlArguments ==
  { NoFilter, ListFilter(<<>>), StrFilter("a"), StrFilter("a@ubc.ca"),
    ListFilter(<< "b", "z", "a" >>), ListFilter(<< "a", "z", "a" >>) }

\* A call of find_students and its outcome.
FindCall(user_names, cwls, out) ==
  [op |-> "find_students", user_names |-> user_names, cwls |-> cwls,
   raised |-> out.world.raised, message |-> out.message,
   returned |-> out.returned]

\* The registry find_students is handed: the one a fetch_students with a
\* registry fills from a roster.
InitFind ==
  /\ variant = "pl_viz"
  /\ \E roster \in RegistryRosters :
        LET st == fetch_students("pl_viz",
                                 World(<< Course("CS101", 1001, Credential) >>,
                                       <<>>, <<>>, <<>>, <<>>),
                                 1, TRUE, Response(HTTP_OK, roster))
        IN /\ courses = st.courses
           /\ students = st.students
           /\ global_students = st.gs
  /\ assessments = <<>>
  /\ global_assessments = <<>>
  /\ calls = <<>>
  /\ net = NoNet
  /\ passes = <<>>

\* find_students(global_students, user_names, cwls); calls keeps the latest
\* call only.
FindStudents(user_names, cwls) ==
  \E out \in { find_students(Here, user_names, cwls) } :
    /\ courses' = out.world.courses
    /\ students' = out.world.students
    /\ global_students' = out.world.gs
    /\ calls' = << FindCall(user_names, cwls, out) >>
    /\ UNCHANGED <<variant, assessments, global_assessments, net, passes>>

NextFind ==
  \E user_names \in NameArguments, cwls \in CwlArguments :
     FindStudents(user_names, cwls)

SpecFind == InitFind /\ [][NextFind]_vars

(* ------------------------- claims on find_students -------------------- *)

Found == calls # <<>> /\ LastCall.op = "find_students"

Given(arg) == arg.kind # "None"

\* C17: find_students raises the invalid-argument error, and returns
\* nothing, exactly when both names and logins are given or neither is; with
\* exactly one of them given it does not fail.
C17_FailsExactlyOnBothOrNeither ==
  Found =>
    /\ (LastCall.raised = "ValueError") <=>
          (Given(LastCall.user_names) <=> Given(LastCall.cwls))
    /\ LastCall.raised = "ValueError" =>
          /\ LastCall.message = InvalidArgumentMessage
          /\ LastCall.returned.kind = "nothing"
    /\ LastCall.raised \in {"none", "ValueError"}

\* find_students raises exactly when both arguments are true or both are
\* false, an empty list counting as false.
FailsExactlyOnBothOrNeitherTruthy ==
  Found =>
    /\ (LastCall.raised = "ValueError") <=>
          (Truthy(LastCall.user_names) <=> Truthy(LastCall.cwls))
    /\ LastCall.raised = "ValueError" =>
          /\ LastCall.message = InvalidArgumentMessage
          /\ LastCall.returned.kind = "nothing"
    /\ LastCall.raised \in {"none", "ValueError"}

\* The registered Students of a name, and of a user_uid.
Registered == { global_students[i][2] : i \in 1..Len(global_students) }

Named(name) == { s \in Registered : students[s].user_name = name }

FoundByNames ==
  /\ Found /\ LastCall.raised = "none"
  /\ LastCall.user_names.kind # "None" /\ LastCall.user_names.items # <<>>

\* C18: find_students by names maps each requested name to None when no
\* registered student has exactly that name, to the Student itself when one
\* has, and to the collection of all of them when two or more have.
C18_NamesMapToNoneOneOrAll ==
  FoundByNames =>
    LET results == LastCall.returned.value
    IN /\ DictKeys(results) = Range(LastCall.user_names.items)
       /\ \A name \in Range(LastCall.user_names.items) :
             LET value == DictGet(results, name)
             IN /\ Cardinality(Named(name)) = 0 => value.kind = "None"
                /\ Cardinality(Named(name)) = 1 =>
                      /\ value.kind = "Student"
                      /\ value.refs[1] \in Named(name)
                /\ Cardinality(Named(name)) >= 2 =>
                      /\ value.kind = "list"
                      /\ Range(value.refs) = Named(name)
                      /\ Len(value.refs) = Cardinality(Named(name))

\* C18 witness: of the names asked, one has two students, one has one and
\* one has none.
C18_Witness ==
  /\ FoundByNames
  /\ LastCall.user_names = ListFilter(<< "A", "B", "Z" >>)
  /\ Cardinality(Named("A")) = 2
  /\ Cardinality(Named("B")) = 1
  /\ DictGet(LastCall.returned.value, "A").kind = "list"
  /\ DictGet(LastCall.returned.value, "B").kind = "Student"
  /\ DictGet(LastCall.returned.value, "Z").kind = "None"

FoundByCwls ==
  /\ Found /\ LastCall.raised = "none"
  /\ LastCall.cwls.kind # "None" /\ LastCall.cwls.items # <<>>

\* The registered Students whose user_uid is the login followed by @ubc.ca.
WithLogin(cwl) == { s \in Registered : students[s].user_uid = cwl \o "@ubc.ca" }

\* C19: find_students by logins maps each requested login to the registered
\* Student whose user_uid is "<login>@ubc.ca", or to None when there is
\* none; the value is one Student or None, never a collection, even if
\* several registered students have that user_uid.
C19_LoginsMapToOneStudentOrNone ==
  FoundByCwls =>
    LET results == LastCall.returned.value
    IN /\ DictKeys(results) = Range(LastCall.cwls.items)
       /\ \A cwl \in Range(LastCall.cwls.items) :
             LET value == DictGet(results, cwl)
             IN /\ value.kind \in {"Student", "None"}
                /\ WithLogin(cwl) = {} <=> value.kind = "None"
                /\ value.kind = "Student" => value.refs[1] \in WithLogin(cwl)

\* C19 witness: two registered students have a@ubc.ca, and the login a maps
\* to one Student; the login z maps to None.
C19_Witness ==
  /\ FoundByCwls
  /\ LastCall.cwls = ListFilter(<< "b", "z", "a" >>)
  /\ Cardinality(WithLogin("a")) = 2
  /\ DictGet(LastCall.returned.value, "a").kind = "Student"
  /\ DictGet(LastCall.returned.value, "b").kind = "Student"
  /\ DictGet(LastCall.returned.value, "z").kind = "None"

(* ------------------- claims on fetches without a registry ------------- *)

\* The latest call was a fetch_students or fetch_assessments without a
\* registry that was answered 200.
UnsharedFetched ==
  /\ calls # <<>>
  /\ LastCall.op \in {"fetch_students", "fetch_assessments"}
  /\ ~LastCall.shared
  /\ LastCall.resp.status = HTTP_OK

\* The call created one instance per row, the newest objects of the heap in
\* row order, appended them to the course's list and, for students, added
\* the course to each.
CreatedOnePerRow ==
  LET c == LastCall.course
      body == LastCall.resp.body
      n == Len(body)
  IN /\ LastCall.raised = "none"
     /\ IF LastCall.op = "fetch_students"
          THEN /\ Len(courses[c].students) >= n /\ Len(students) >= n
               /\ \A i \in 1..n :
                     LET s == Len(students) - n + i
                     IN /\ courses[c].students[Len(courses[c].students) - n + i] = s
                        /\ students[s].user_id = body[i].user_id
                        /\ students[s].user_name = body[i].user_name
                        /\ students[s].user_uid = body[i].user_uid
                        /\ students[s].courses = << c >>
                        /\ \A k \in 1..Len(global_students) : global_students[k][2] # s
          ELSE /\ Len(courses[c].assessments) >= n /\ Len(assessments) >= n
               /\ \A i \in 1..n :
                     LET a == Len(assessments) - n + i
                     IN /\ courses[c].assessments[Len(courses[c].assessments) - n + i] = a
                        /\ assessments[a].assessment_id = body[i].assessment_id
                        /\ assessments[a].name = body[i].assessment_name
                        /\ assessments[a].label = body[i].assessment_label
                        /\ assessments[a].course_id = courses[c].course_id
                        /\ \A k \in 1..Len(global_assessments) :
                              global_assessments[k][2] # a

\* C20: without a registry, fetch_students and fetch_assessments succeed on a
\* 200 response: for each row they create a new unshared instance, call
\* add_course(self) on it (students) and append it to the course's list.
C20_UnsharedFetchCreatesOnePerRow == UnsharedFetched => CreatedOnePerRow

\* The constructor call of the latest call passes as many arguments as
\* __init__ takes.
ArgumentsFit ==
  IF LastCall.op = "fetch_students"
    THEN StudentArgsUnshared(variant) = StudentParams(variant)
    ELSE AssessmentArgsUnshared = AssessmentParams(variant)

\* Where the arguments fit (fetch_students of pl_api.py and both legacy
\* methods) the call does as C20 says.
UnsharedFetchCreatesOnePerRowWhereArgumentsFit ==
  (UnsharedFetched /\ ArgumentsFit) => CreatedOnePerRow

\* Elsewhere a response with a row raises TypeError.
UnsharedFetchRaisesTypeErrorElsewhere ==
  (UnsharedFetched /\ ~ArgumentsFit /\ LastCall.resp.body # <<>>) =>
     LastCall.raised = "TypeError"

(* -------- Course-level statistics and charts over the assessments ----- *)

\* One step of a course-level call: the request for the assessment list,
\* a request for the submissions of the Assessment at a place of the list,
\* or the statistics of that Assessment being computed.
Event(kind, place, a) == [kind |-> kind, place |-> place, assessment |-> a]

\* What the transport answers during one call: one response for the
\* assessment list and one for the submissions of each assessment_id.
Transport(list, subs) == [list |-> list, subs |-> subs]

\* The requests fetching the submissions of Assessment a added between two
\* worlds, as events at a place of the list.
RequestEvents(before, after, place, a) ==
  [ i \in 1..(Len(after.requests) - Len(before.requests)) |->
      Event("submissions_request", place, a) ]

\* if not self.assessments: self.fetch_assessments()
fetch_assessments_if_empty(v, st, c, tr) ==
  IF st.courses[c].assessments = <<>>
    THEN fetch_assessments(v, st, c, FALSE, tr.list)
    ELSE st

\* The progress of the loop of get_assessment_summary_statistics: the
\* world, the events so far and the statistics printed.
Progress(world, events, printed) ==
  [world |-> world, events |-> events, printed |-> printed]

\* summary_row computing the statistics before it fetches the submissions.
summary_row_statistics_first(v, acc, c, place, tr) ==
  LET st == acc.world
      a == st.courses[c].assessments[place]
      resp == tr.subs[st.assessments[a].assessment_id]
      out == get_summary_statistics(v, st, a, st.courses[c].token, resp)
      fetched == fetch_submissions(v, out.world, a, st.courses[c].token, resp)
  IN IF out.world.raised # "none" \/ out.returned.kind = "None"
       THEN Progress([out.world EXCEPT !.raised = "TypeError"],
                     acc.events \o RequestEvents(st, out.world, place, a),
                     acc.printed)
       ELSE Progress(fetched,
                     acc.events \o RequestEvents(st, out.world, place, a)
                       \o << Event("statistics", place, a) >>
                       \o RequestEvents(out.world, fetched, place, a),
                     Append(acc.printed, out.returned.value))

\* One pass of the loop body: assessment.fetch_submissions(), then
\* stats = assessment.get_summary_statistics(), then the prints, which
\* subscript stats.
summary_row(v, acc, c, place, tr) ==
  LET st == acc.world
      a == st.courses[c].assessments[place]
      resp == tr.subs[st.assessments[a].assessment_id]
      fetched == fetch_submissions(v, st, a, st.courses[c].token, resp)
      out == get_summary_statistics(v, fetched, a, st.courses[c].token, resp)
      requested == acc.events \o RequestEvents(st, fetched, place, a)
      again == requested \o RequestEvents(fetched, out.world, place, a)
  IN IF fetched.raised # "none"
       THEN Progress(fetched, requested, acc.printed)
     ELSE IF out.world.raised # "none"
       THEN Progress(out.world, again, acc.printed)
     ELSE IF out.returned.kind = "None"
       THEN Progress([out.world EXCEPT !.raised = "TypeError"],
                     again \o << Event("statistics", place, a) >>, acc.printed)
     ELSE Progress(out.world, again \o << Event("statistics", place, a) >>,
                   Append(acc.printed, out.returned.value))

RECURSIVE summary_rows(_, _, _, _, _)
summary_rows(v, acc, c, place, tr) ==
  IF acc.world.raised # "none" \/ place > Len(acc.world.courses[c].assessments)
    THEN acc
    ELSE summary_rows(v, summary_row(v, acc, c, place, tr), c, place + 1, tr)

\* course.get_assessment_summary_statistics()
get_assessment_summary_statistics(v, st, c, tr) ==
  LET listed == fetch_assessments_if_empty(v, st, c, tr)
      events == IF Len(listed.requests) > Len(st.requests)
                  THEN << Event("list_request", 0, 0) >>
                  ELSE <<>>
  IN summary_rows(v, Progress(listed, events, <<>>), c, 1, tr)

\* label_selected with a missing or empty filter standing for every label.
label_selected_or_all(assessment_label, label) ==
  ~Truthy(assessment_label) \/ label \in Range(assessment_label.items)

\* if assessment_label and assessment.label in assessment_label
label_selected(assessment_label, label) ==
  Truthy(assessment_label) /\ label \in Range(assessment_label.items)

\* score_rows keeping the first score of the Assessment only.
score_rows_first(assessment) ==
  [ i \in 1..(IF assessment.scores = <<>> THEN 0 ELSE 1) |->
      [assessment_name |-> assessment.name \o " (" \o assessment.label \o ")",
       score |-> assessment.scores[i]] ]

\* [{"assessment_name": f"{assessment.name} ({assessment.label})",
\*   "score": score} for score in assessment.scores]
score_rows(assessment) ==
  [ i \in 1..Len(assessment.scores) |->
      [assessment_name |-> assessment.name \o " (" \o assessment.label \o ")",
       score |-> assessment.scores[i]] ]

\* One pass of the loop collecting the data of a chart; printed holds the
\* rows collected so far.
data_row(v, acc, c, place, assessment_label, tr) ==
  LET st == acc.world
      a == st.courses[c].assessments[place]
      resp == tr.subs[st.assessments[a].assessment_id]
      fetched == fetch_submissions(v, st, a, st.courses[c].token, resp)
      requested == acc.events \o RequestEvents(st, fetched, place, a)
  IN IF ~label_selected(assessment_label, st.assessments[a].label)
       THEN acc
     ELSE IF fetched.raised # "none"
       THEN Progress(fetched, requested, acc.printed)
     ELSE Progress(fetched, requested,
                   acc.printed \o score_rows(fetched.assessments[a]))

RECURSIVE data_rows(_, _, _, _, _, _)
data_rows(v, acc, c, place, assessment_label, tr) ==
  IF acc.world.raised # "none" \/ place > Len(acc.world.courses[c].assessments)
    THEN acc
    ELSE data_rows(v, data_row(v, acc, c, place, assessment_label, tr), c,
                   place + 1, assessment_label, tr)

NoDataMessage == "No data available to plot."

NoChart == "none"

\* The outcome of a chart method: the world, the events, the rows
\* collected, the message printed and the chart displayed.
Charted(acc, message, chart) ==
  [world |-> acc.world, events |-> acc.events, printed |-> acc.printed,
   message |-> message, chart |-> chart]

\* The body plot_boxplot and plot_histogram share; the legacy Course has
\* neither method.
plot_scores(chart, v, st, c, assessment_label, tr) ==
  LET listed == fetch_assessments_if_empty(v, st, c, tr)
      events == IF Len(listed.requests) > Len(st.requests)
                  THEN << Event("list_request", 0, 0) >>
                  ELSE <<>>
      acc == data_rows(v, Progress(listed, events, <<>>), c, 1,
                       assessment_label, tr)
  IN IF v = "legacy"
       THEN Charted(Progress([st EXCEPT !.raised = "AttributeError"], <<>>, <<>>),
                    "", NoChart)
     ELSE IF acc.world.raised # "none" THEN Charted(acc, "", NoChart)
     ELSE IF acc.printed = <<>> THEN Charted(acc, NoDataMessage, NoChart)
     ELSE Charted(acc, "", chart)

\* course.plot_boxplot(assessment_label)
plot_boxplot(v, st, c, assessment_label, tr) ==
  plot_scores("boxplot", v, st, c, assessment_label, tr)

\* course.plot_histogram(assessment_label)
plot_histogram(v, st, c, assessment_label, tr) ==
  plot_scores("histogram", v, st, c, assessment_label, tr)

(* ------ SpecCourse: statistics and charts of one Course's assessments -- *)

\* The assessment list of the course.
CourseAssessmentList == << ARow(1, "HW1", "hw"), ARow(2, "Quiz", "quiz") >>

CourseListResponses ==
  { Response(HTTP_OK, CourseAssessmentList), Response(HTTP_OK, <<>>) } \cup
  { Response(s, CourseAssessmentList) : s \in Statuses \ {HTTP_OK} }

\* Submissions with the scores [80, 60], no submission, and a failure.
CourseSubmissionsResponses ==
  { Response(HTTP_OK, << Scored(80), Scored(None), Scored(60) >>),
    Response(HTTP_OK, <<>>) } \cup
  { Response(s, << Scored(80) >>) : s \in Statuses \ {HTTP_OK} }

Transports ==
  { Transport(list, subs) :
      list \in CourseListResponses,
      subs \in [ { row.assessment_id : row \in Range(CourseAssessmentList) } ->
                 CourseSubmissionsResponses ] }

\* The label filters: none, empty, one label, and both labels in the order
\* opposite to the list's.
AssessmentLabelFilters ==
  { NoFilter, ListFilter(<<>>), ListFilter(<< "hw" >>),
    ListFilter(<< "quiz", "hw" >>) }

\* A call on the Course: its arguments, the world before it, and its
\* outcome.
CourseCall(op, c, assessment_label, tr, before, out, chart) ==
  [op |-> op, course |-> c, assessment_label |-> assessment_label,
   transport |-> tr, before |-> before, raised |-> out.world.raised,
   requests |-> out.world.requests, events |-> out.events,
   printed |-> out.printed, chart |-> chart]

\* One Course, fresh or with its assessment list fetched through a
\* registry.
InitCourse ==
  /\ variant \in Variants
  /\ \E listed \in BOOLEAN :
       LET fresh == World(<< Course("CS101", 1001, Credential) >>, <<>>, <<>>,
                          <<>>, <<>>)
           st == IF listed
                   THEN fetch_assessments(variant, fresh, 1, TRUE,
                                          Response(HTTP_OK, CourseAssessmentList))
                   ELSE fresh
       IN /\ courses = st.courses
          /\ assessments = st.assessments
          /\ global_assessments = st.ga
  /\ students = <<>>
  /\ global_students = <<>>
  /\ calls = <<>>
  /\ net = NoNet
  /\ passes = <<>>

\* course.get_assessment_summary_statistics(); calls keeps the latest call.
GetAssessmentSummaryStatistics(c, tr) ==
  \E out \in { get_assessment_summary_statistics(variant, Here, c, tr) } :
    /\ courses' = out.world.courses
    /\ assessments' = out.world.assessments
    /\ global_assessments' = out.world.ga
    /\ calls' = << CourseCall("get_assessment_summary_statistics", c, NoFilter,
                              tr, Here, out, NoChart) >>
    /\ UNCHANGED <<variant, students, global_students, net, passes>>

\* course.plot_boxplot(assessment_label)
PlotBoxplot(c, assessment_label, tr) ==
  \E out \in { plot_boxplot(variant, Here, c, assessment_label, tr) } :
    /\ courses' = out.world.courses
    /\ assessments' = out.world.assessments
    /\ global_assessments' = out.world.ga
    /\ calls' = << CourseCall("plot_boxplot", c, assessment_label, tr, Here,
                              out, out.chart) >>
    /\ UNCHANGED <<variant, students, global_students, net, passes>>

\* course.plot_histogram(assessment_label)
PlotHistogram(c, assessment_label, tr) ==
  \E out \in { plot_histogram(variant, Here, c, assessment_label, tr) } :
    /\ courses' = out.world.courses
    /\ assessments' = out.world.assessments
    /\ global_assessments' = out.world.ga
    /\ calls' = << CourseCall("plot_histogram", c, assessment_label, tr, Here,
                              out, out.chart) >>
    /\ UNCHANGED <<variant, students, global_students, net, passes>>

NextCourse ==
  \/ \E c \in 1..Len(courses), tr \in Transports :
       GetAssessmentSummaryStatistics(c, tr)
  \/ \E c \in 1..Len(courses), f \in AssessmentLabelFilters, tr \in Transports :
       PlotBoxplot(c, f, tr)
  \/ \E c \in 1..Len(courses), f \in AssessmentLabelFilters, tr \in Transports :
       PlotHistogram(c, f, tr)

SpecCourse == InitCourse /\ [][NextCourse]_vars

(* ---- Claim C21: statistics are computed one assessment after another -- *)

SummaryCalled ==
  calls # <<>> /\ LastCall.op = "get_assessment_summary_statistics"

\* The request for the assessment list is the first event of a call that
\* found the list empty, and occurs nowhere else.
ListRequestedFirstWhenEmpty(call) ==
  LET e == call.events
      empty == call.before.courses[call.course].assessments = <<>>
  IN /\ empty => e # <<>> /\ e[1].kind = "list_request"
     /\ \A i \in 1..Len(e) : e[i].kind = "list_request" => empty /\ i = 1

\* The events run through the list in its order; statistics come after a
\* request for the same place, and a request comes after the statistics of
\* every earlier place.
OneAfterAnother(call) ==
  LET e == call.events
      list == courses[call.course].assessments
      At(i) == e[i].kind # "list_request"
  IN /\ \A i \in 1..Len(e) :
          At(i) => e[i].place \in 1..Len(list) /\ e[i].assessment = list[e[i].place]
     /\ \A i, j \in 1..Len(e) :
          At(i) /\ At(j) /\ i < j => e[i].place <= e[j].place
     /\ \A i \in 1..Len(e) :
          e[i].kind = "statistics" =>
            \E j \in 1..(i - 1) :
               e[j].kind = "submissions_request" /\ e[j].place = e[i].place
     /\ \A i \in 1..Len(e) :
          e[i].kind = "submissions_request" =>
            \A p \in 1..(e[i].place - 1) :
               \E j \in 1..(i - 1) : e[j].kind = "statistics" /\ e[j].place = p

\* C21: get_assessment_summary_statistics requests the assessment list
\* first when the course holds none, then takes the assessments one after
\* another in list order: the submissions of an assessment are requested
\* before its statistics are computed, and no submissions of a later
\* assessment are requested before the statistics of every earlier one
\* have been computed.
C21_StatisticsOneAssessmentAfterAnother ==
  SummaryCalled =>
    ListRequestedFirstWhenEmpty(LastCall) /\ OneAfterAnother(LastCall)

\* A call that found the list empty, requested it, and computed the
\* statistics of both assessments.
C21_Witness ==
  /\ SummaryCalled
  /\ LastCall.before.courses[LastCall.course].assessments = <<>>
  /\ LastCall.raised = "none"
  /\ \E i \in 1..Len(LastCall.events) :
       LastCall.events[i].kind = "statistics" /\ LastCall.events[i].place = 2

(* ---- Claims C24, C25: the label filter of plot_boxplot/plot_histogram - *)

PlotCalled ==
  calls # <<>> /\ LastCall.op \in {"plot_boxplot", "plot_histogram"}

\* The places of the list whose submissions the call requested, in the
\* order of the requests.
RequestedPlaces(call) ==
  LET requested == SelectSeq(call.events,
                             LAMBDA e : e.kind = "submissions_request")
  IN [ i \in 1..Len(requested) |-> requested[i].place ]

\* The filter is None or holds no label.
FilterSelectsNothing(call) ==
  call.assessment_label.kind = "None" \/ call.assessment_label.items = <<>>

SelectedPlaces(call) ==
  LET list == courses[call.course].assessments
  IN SelectSeq([ i \in 1..Len(list) |-> i ],
               LAMBDA i : \E k \in 1..Len(call.assessment_label.items) :
                             assessments[list[i]].label = call.assessment_label.items[k])

\* One (assessment name, score) row per score stored on the Assessments at
\* the given places, place after place.
RECURSIVE RowsOfPlaces(_, _)
RowsOfPlaces(call, places) ==
  IF places = <<>> THEN <<>>
  ELSE LET a == assessments[courses[call.course].assessments[Head(places)]]
       IN [ i \in 1..Len(a.scores) |->
              [assessment_name |-> a.name \o " (" \o a.label \o ")",
               score |-> a.scores[i]] ]
          \o RowsOfPlaces(call, Tail(places))

IsPrefix(s, t) == Len(s) <= Len(t) /\ s = SubSeq(t, 1, Len(s))

\* C25: with a non-empty label filter, plot_boxplot and plot_histogram
\* request the submissions of exactly the assessments whose label is in
\* the filter, in list order (up to the first failing request), and the
\* data of the chart is the concatenation, in that order, of one
\* (assessment name, score) row per score stored on each of them.
C25_FilterSelectsByLabelInListOrder ==
  PlotCalled /\ ~FilterSelectsNothing(LastCall) /\ variant # "legacy" =>
    /\ IsPrefix(RequestedPlaces(LastCall), SelectedPlaces(LastCall))
    /\ LastCall.raised = "none" =>
         /\ RequestedPlaces(LastCall) = SelectedPlaces(LastCall)
         /\ LastCall.printed = RowsOfPlaces(LastCall, SelectedPlaces(LastCall))
         /\ LastCall.chart = IF LastCall.printed = <<>> THEN NoChart
                             ELSE IF LastCall.op = "plot_boxplot" THEN "boxplot"
                             ELSE "histogram"

\* A chart over both assessments, the filter naming their labels in the
\* order opposite to the list's: four rows, HW1's before Quiz's.
C25_Witness ==
  /\ PlotCalled
  /\ LastCall.assessment_label = ListFilter(<< "quiz", "hw" >>)
  /\ LastCall.raised = "none"
  /\ Len(LastCall.printed) = 4
  /\ LastCall.printed[1].assessment_name = "HW1 (hw)"
  /\ LastCall.printed[4].assessment_name = "Quiz (quiz)"
  /\ LastCall.chart = "histogram"

(* ---- Claim C22: a course lists the assessments of its own course_id --- *)

\* The assessment ids of the list a call received.
ListedIds(call) ==
  IF call.op = "fetch_assessments" /\ call.resp.status = HTTP_OK
    THEN { call.resp.body[i].assessment_id : i \in 1..Len(call.resp.body) }
    ELSE {}

\* Assessment ids are course-scoped, as the data model has it: the lists
\* received for two different course_ids have no assessment_id in common.
ListsCourseScoped ==
  \A i, j \in 1..Len(calls) :
     courses[calls[i].course].course_id # courses[calls[j].course].course_id
       => ListedIds(calls[i]) \cap ListedIds(calls[j]) = {}

OwnAssessmentsOnly ==
  \A c \in 1..Len(courses) :
     \A a \in Range(courses[c].assessments) :
        assessments[a].course_id = courses[c].course_id

Histogram(scores) == [displayed |-> TRUE, scores |-> scores]

NoHistogram == [displayed |-> FALSE, scores |-> <<>>]

FetchSubmissionsFirstMessage(name) ==
  "No scores available for assessment " \o name \o ". Fetch submissions first."

\* The outcome of plot_score_histogram: the world, the message printed or
\* raised, and the chart.
Plotting(world, message, chart) ==
  [world |-> world, message |-> message, chart |-> chart]

\* assessment.plot_score_histogram() given the response to the request it
\* would send.  The legacy method never fetches; the others fetch whenever
\* the Assessment holds no score.
plot_score_histogram(v, st, a, token, resp) ==
  LET A == st.assessments[a]
      fetched == IF A.scores = <<>>
                   THEN fetch_submissions(v, st, a, token, resp)
                   ELSE st
  IN IF v = "legacy"
       THEN IF A.scores = <<>>
              THEN Plotting(st, FetchSubmissionsFirstMessage(A.name), NoHistogram)
              ELSE Plotting(st, "", Histogram(A.scores))
     ELSE IF fetched.raised # "none"
       THEN Plotting(fetched, FetchFailedMessage, NoHistogram)
     ELSE Plotting(fetched, "", Histogram(fetched.assessments[a].scores))

(* ------ SpecLazy: when an Assessment asks the transport for scores ---- *)

\* Bodies without a score (no submission; none of them scored) and bodies
\* with scores.
LazyBodies ==
  { <<>>, << Scored(None), Unscored >>, << Scored(80) >>, << Scored(0) >>,
    << Scored(80), Scored(None) >>, ExampleSubmissions }

LazyResponses ==
  { Response(HTTP_OK, b) : b \in LazyBodies } \cup
  { Response(s, << Scored(80) >>) : s \in Statuses \ {HTTP_OK} }

\* A call on the Assessment: the response to the request it sent, if it
\* sent one, the exception raised, the scores held before, and the requests
\* sent.
LazyCall(op, a, resp, world, before) ==
  [op |-> op, assessment |-> a, resp |-> resp, raised |-> world.raised,
   before |-> before, requests |-> world.requests]

\* assessment.fetch_submissions()
FetchSubmissionsLazy(a, resp) ==
  \E st \in { fetch_submissions(variant, Here, a, Credential, resp) } :
    /\ assessments' = st.assessments
    /\ calls' = << LazyCall("fetch_submissions", a, resp, st,
                            assessments[a].scores) >>
    /\ UNCHANGED <<variant, courses, students, global_students,
                   global_assessments, net, passes>>

\* assessment.get_summary_statistics()
GetSummaryStatisticsLazy(a, resp) ==
  \E out \in { get_summary_statistics(variant, Here, a, Credential, resp) } :
    /\ (out.world.requests = <<>>) => (resp = NoResponse)
    /\ (out.world.requests # <<>>) => (resp \in LazyResponses)
    /\ assessments' = out.world.assessments
    /\ calls' = << LazyCall("get_summary_statistics", a, resp, out.world,
                            assessments[a].scores) >>
    /\ UNCHANGED <<variant, courses, students, global_students,
                   global_assessments, net, passes>>

\* assessment.plot_score_histogram()
PlotScoreHistogram(a, resp) ==
  \E out \in { plot_score_histogram(variant, Here, a, Credential, resp) } :
    /\ (out.world.requests = <<>>) => (resp = NoResponse)
    /\ (out.world.requests # <<>>) => (resp \in LazyResponses)
    /\ assessments' = out.world.assessments
    /\ calls' = << LazyCall("plot_score_histogram", a, resp, out.world,
                            assessments[a].scores) >>
    /\ UNCHANGED <<variant, courses, students, global_students,
                   global_assessments, net, passes>>

NextLazy ==
  \/ \E a \in 1..Len(assessments), resp \in LazyResponses :
        FetchSubmissionsLazy(a, resp)
  \/ \E a \in 1..Len(assessments), resp \in LazyResponses \cup {NoResponse} :
        GetSummaryStatisticsLazy(a, resp)
  \/ \E a \in 1..Len(assessments), resp \in LazyResponses \cup {NoResponse} :
        PlotScoreHistogram(a, resp)

SpecLazy == InitSub /\ [][NextLazy]_vars

(* ---- Claim C23: no request once the submissions have been fetched ---- *)

\* The step follows a successful fetch_submissions by a
\* get_summary_statistics or plot_score_histogram on the same Assessment.
ReadsAfterFetch ==
  /\ calls # <<>>
  /\ calls' # calls
  /\ LastCall.op = "fetch_submissions"
  /\ LastCall.raised = "none"
  /\ LastCall'.op \in {"get_summary_statistics", "plot_score_histogram"}
  /\ LastCall'.assessment = LastCall.assessment

\* C23: once fetch_submissions has succeeded for an Assessment, a
\* get_summary_statistics or plot_score_histogram that follows on it sends
\* no request to the transport, whatever scores the fetch stored, none
\* included.
C23_NoRequestOnceFetched ==
  [][ ReadsAfterFetch => LastCall'.requests = <<>> ]_vars

\* The same where the fetch stored a score, in every variant.
NoRequestOnceScoresFetched ==
  [][ ReadsAfterFetch /\ assessments[LastCall.assessment].scores # <<>>
        => LastCall'.requests = <<>> ]_vars

\* The legacy methods never send a request.
NoRequestOnceFetchedInLegacy ==
  [][ ReadsAfterFetch /\ variant = "legacy"
        => LastCall'.requests = <<>> ]_vars

\* pl_api.py and assessment.py after a fetch that stored no score: each of
\* the two methods sends the request again.
RequestAgainAfterEmptyFetch ==
  [][ ReadsAfterFetch /\ variant # "legacy"
        /\ assessments[LastCall.assessment].scores = <<>>
        => Len(LastCall'.requests) = 1 ]_vars

(* -- SpecRace: the roster loops of two courses run as two threads ------- *)

\* The rosters the two loops walk through.
RaceRosters ==
  { << Row(7, "A", "a@ubc.ca") >>,
    << Row(7, "A", "a@ubc.ca"), Row(8, "B", "b@ubc.ca") >>,
    << Row(8, "B", "b@ubc.ca"), Row(7, "A", "a@ubc.ca") >> }

\* registered answering that no id is in the registry.
registered_never(gs, student_id) == FALSE

\* student_id in global_students
registered(gs, student_id) == DictHas(gs, student_id)

\* A thread running the loop of fetch_students of Course c over the rows
\* left: the statement it is at, and its local student_instance (0: not
\* yet assigned).
Thread(c, rows, pc, student_instance) ==
  [course |-> c, rows |-> rows, pc |-> pc, student_instance |-> student_instance]

\* The thread is between its test of the registry and the end of its
\* lookup-or-insert.
InLookupOrInsert(thread) == thread.pc \in {"construct", "store", "retrieve"}

\* A test of the registry made while the other thread was inside its
\* lookup-or-insert.
Overlap(p, thread, other) ==
  [op |-> "check", thread |-> p, student_id |-> Head(thread.rows).user_id,
   during |-> other.pc]

\* The two loops start on two courses with an empty registry passed to
\* both; calls collects the overlapping tests.
InitRace ==
  /\ variant \in Variants
  /\ courses = << Course("CS101", 1001, "tok1"), Course("MATH201", 1002, "tok2") >>
  /\ students = <<>>
  /\ assessments = <<>>
  /\ global_students = <<>>
  /\ global_assessments = <<>>
  /\ calls = <<>>
  /\ net = NoNet
  /\ \E r1 \in RaceRosters, r2 \in RaceRosters :
       passes = << Thread(1, r1, "check", 0), Thread(2, r2, "check", 0) >>

\* if student_id not in global_students
Check(p) ==
  LET thread == passes[p]
      other == passes[3 - p]
  IN /\ thread.pc = "check"
     /\ passes' = [passes EXCEPT ![p].pc =
                     IF registered(global_students, Head(thread.rows).user_id)
                       THEN "retrieve" ELSE "construct"]
     /\ calls' = IF InLookupOrInsert(other)
                   THEN Append(calls, Overlap(p, thread, other))
                   ELSE calls
     /\ UNCHANGED <<variant, courses, students, assessments, global_students,
                    global_assessments, net>>

\* student_instance = Student(student_id, name, email, self.token)
Construct(p) ==
  LET thread == passes[p]
      row == Head(thread.rows)
  IN /\ thread.pc = "construct"
     /\ students' = Append(students,
                           Student(row.user_id, row.user_name, row.user_uid,
                                   StoredToken(variant,
                                               courses[thread.course].token)))
     /\ passes' = [passes EXCEPT ![p].pc = "store",
                                 ![p].student_instance = Len(students) + 1]
     /\ UNCHANGED <<variant, courses, assessments, global_students,
                    global_assessments, calls, net>>

\* global_students[student_id] = student_instance
Store(p) ==
  LET thread == passes[p]
  IN /\ thread.pc = "store"
     /\ global_students' = DictPut(global_students, Head(thread.rows).user_id,
                                   thread.student_instance)
     /\ passes' = [passes EXCEPT ![p].pc = "attach"]
     /\ UNCHANGED <<variant, courses, students, assessments,
                    global_assessments, calls, net>>

\* student_instance = global_students[student_id]
Retrieve(p) ==
  LET thread == passes[p]
  IN /\ thread.pc = "retrieve"
     /\ passes' = [passes EXCEPT
                     ![p].pc = "attach",
                     ![p].student_instance =
                        DictGet(global_students, Head(thread.rows).user_id)]
     /\ UNCHANGED <<variant, courses, students, assessments, global_students,
                    global_assessments, calls, net>>

\* student_instance.add_course(self); self.students.append(student_instance);
\* then the next row, if any.
Attach(p) ==
  LET thread == passes[p]
  IN /\ thread.pc = "attach"
     /\ students' = add_course(students, thread.student_instance, thread.course)
     /\ courses' = [courses EXCEPT ![thread.course].students =
                      Append(@, thread.student_instance)]
     /\ passes' = [passes EXCEPT
                     ![p].rows = Tail(@),
                     ![p].pc = IF Tail(thread.rows) = <<>> THEN "done" ELSE "check",
                     ![p].student_instance = 0]
     /\ UNCHANGED <<variant, assessments, global_students, global_assessments,
                    calls, net>>

NextRace ==
  \E p \in 1..2 :
     \/ Check(p)
     \/ Construct(p)
     \/ Store(p)
     \/ Retrieve(p)
     \/ Attach(p)

SpecRace == InitRace /\ [][NextRace]_vars

(* ---- Claim C26: lookup-or-insert is a check-then-act ----------------- *)

\* No two Students carry the same user_id.
OneInstancePerId ==
  \A s, t \in 1..Len(students) :
     students[s].user_id = students[t].user_id => s = t

\* C26: as long as no thread tests the registry while the other is inside
\* its lookup-or-insert (the window a lock would close, and which a
\* sequential run never opens), one Student is constructed per user_id.
C26_OneInstancePerIdWithoutOverlap ==
  calls = <<>> => OneInstancePerId

\* An interleaving the unlocked loops allow: both have ended, two Students
\* were constructed for one user_id, and the two courses hold different
\* instances for it.
C26_Witness ==
  /\ passes[1].pc = "done" /\ passes[2].pc = "done"
  /\ calls # <<>>
  /\ \E s \in Range(courses[1].students), t \in Range(courses[2].students) :
       s # t /\ students[s].user_id = students[t].user_id

(* ---- Claim C27: membership is consistent in both directions ---------- *)

\* Every call so far was a fetch (no add_course called directly).
OnlyFetches == \A i \in 1..Len(calls) : calls[i].op # "add_course"

MembershipConsistent ==
  \A s \in 1..Len(students), c \in 1..Len(courses) :
     s \in Range(courses[c].students) <=> CourseInList(c, students[s].courses)

\* C27: after any sequence of fetch_students calls, with or without a
\* registry, succeeding or not, a Student is on a course's students list
\* if and only if the course is among the Student's courses.
C27_MembershipConsistentBothWays ==
  OnlyFetches => MembershipConsistent

\* Two fetch_students calls through the registry put one Student on the
\* lists of both courses, and both courses among its courses.
C27_Witness ==
  /\ Len(calls) = 2
  /\ \A i \in 1..2 : calls[i].op = "fetch_students" /\ calls[i].raised = "none"
  /\ \E s \in 1..Len(students) :
       /\ s \in Range(courses[1].students) /\ s \in Range(courses[2].students)
       /\ CourseInList(1, students[s].courses)
       /\ CourseInList(2, students[s].courses)
  /\ \E s \in 1..Len(students) :
       s \notin Range(courses[2].students) /\ ~CourseInList(2, students[s].courses)

(* ---- Claim C28: the first row fixes a registered instance ------------ *)

\* The step leaves a Student as it was but for courses added at the end of
\* its courses.
OnlyCoursesAdded(s) ==
  /\ students'[s].user_id = students[s].user_id
  /\ students'[s].user_name = students[s].user_name
  /\ students'[s].user_uid = students[s].user_uid
  /\ students'[s].token = students[s].token
  /\ students'[s].grades = students[s].grades
  /\ IsPrefix(students[s].courses, students'[s].courses)

\* The first row of a body carrying the id.
FirstRow(body, key, k) ==
  body[CHOOSE j \in 1..Len(body) :
         body[j][key] = k /\ \A i \in 1..(j - 1) : body[i][key] # k]

\* C28: with a shared registry, no call changes the user_name, user_uid or
\* token of a registered Student, or anything of a registered Assessment
\* (name, label, course_id, token): they are set from the first row of the
\* call that introduced the id and stay so, and a later row with the same
\* id only adds a course to the Student's courses.
C28_FirstRowFixesAttributes ==
  [][ /\ \A k \in DictKeys(global_students) :
           /\ DictGet(global_students', k) = DictGet(global_students, k)
           /\ OnlyCoursesAdded(DictGet(global_students, k))
      /\ \A k \in DictKeys(global_assessments) :
           /\ DictGet(global_assessments', k) = DictGet(global_assessments, k)
           /\ assessments'[DictGet(global_assessments, k)] =
                assessments[DictGet(global_assessments, k)]
      /\ \A k \in DictKeys(global_students') \ DictKeys(global_students) :
           LET row == FirstRow(LastCall'.resp.body, "user_id", k)
               student == students'[DictGet(global_students', k)]
           IN /\ student.user_name = row.user_name
              /\ student.user_uid = row.user_uid
              /\ student.token = StoredToken(variant, courses[LastCall'.course].token)
      /\ \A k \in DictKeys(global_assessments') \ DictKeys(global_assessments) :
           LET row == FirstRow(LastCall'.resp.body, "assessment_id", k)
               assessment == assessments'[DictGet(global_assessments', k)]
           IN /\ assessment.name = row.assessment_name
              /\ assessment.label = row.assessment_label
              /\ assessment.course_id = courses[LastCall'.course].course_id
              /\ assessment.token = StoredToken(variant, courses[LastCall'.course].token)
    ]_vars

\* Student 7 was introduced as "A" by the first course's roster; the
\* second course's roster, fetched through the same registry, names it
\* "B": the Student is still "A" with the first course's token, and
\* belongs to both courses.
C28_Witness ==
  /\ Len(calls) = 2
  /\ \A i \in 1..2 :
       /\ calls[i].op = "fetch_students" /\ calls[i].shared
       /\ calls[i].raised = "none" /\ calls[i].course = i
  /\ calls[1].resp.body = << Row(7, "A", "a@ubc.ca") >>
  /\ \E j \in 1..Len(calls[2].resp.body) :
       calls[2].resp.body[j] = Row(7, "B", "b@ubc.ca")
  /\ LET s == DictGet(global_students, 7)
     IN /\ students[s].user_name = "A"
        /\ students[s].user_uid = "a@ubc.ca"
        /\ students[s].token = StoredToken(variant, courses[1].token)
        /\ students[s].courses = << 1, 2 >>

(* ---- Claim C29: fetching the same roster again ----------------------- *)

\* The step repeats the latest call: a fetch_students that succeeded
\* through the registry, called again on the same course with the same
\* roster.
FetchesRosterAgain ==
  /\ calls # <<>>
  /\ calls' = Append(calls, LastCall)
  /\ LastCall.op = "fetch_students"
  /\ LastCall.shared
  /\ LastCall.raised = "none"

\* C29: a second fetch_students on the same course with the same registry
\* and the same roster leaves the registry and every Student (its courses
\* included) as they were, and appends the Student of every row of the
\* roster to the course's students once more; right after the first fetch
\* the list is thereby doubled, each Student occurring twice as often.
C29_SecondFetchAppendsRosterAgain ==
  [][ FetchesRosterAgain =>
        LET c == LastCall.course
            body == LastCall.resp.body
            again == [ j \in 1..Len(body) |->
                         DictGet(global_students, body[j].user_id) ]
        IN /\ global_students' = global_students
           /\ students' = students
           /\ courses'[c].students = courses[c].students \o again
           /\ Len(calls) = 1 =>
                /\ courses'[c].students =
                     courses[c].students \o courses[c].students
                /\ \A s \in 1..Len(students) :
                     Count(courses'[c].students, s) =
                       2 * Count(courses[c].students, s) ]_vars

\* The same roster of one row fetched twice for the first course: one
\* Student, a member of the course once, on the course's list twice.
C29_Witness ==
  /\ Len(calls) = 2
  /\ calls[1] = calls[2]
  /\ calls[1].op = "fetch_students" /\ calls[1].shared
  /\ calls[1].raised = "none" /\ calls[1].course = 1
  /\ calls[1].resp.body = << Row(7, "A", "a@ubc.ca") >>
  /\ Len(students) = 1
  /\ students[1].courses = << 1 >>
  /\ courses[1].students = << 1, 1 >>

(* ---- Claim C30: find_students is read-only and total ----------------- *)

\* The names, or else the logins, a call that returned was asked for.
Requested(call) ==
  IF Truthy(call.user_names)
    THEN Range(call.user_names.items)
    ELSE Range(call.cwls.items)

\* C30: find_students adds, removes and changes no registry entry, no
\* Student and no Course, and when it returns, its result has one key for
\* each distinct name (or login) it was asked for and no other key.
C30_FindStudentsReadOnlyAndTotal ==
  [][ /\ global_students' = global_students
      /\ students' = students
      /\ courses' = courses
      /\ LastCall'.raised = "none" =>
           /\ DictKeys(LastCall'.returned.value) = Requested(LastCall')
           /\ Len(LastCall'.returned.value) = Cardinality(Requested(LastCall'))
    ]_vars

\* Asked for "A", "Z" and "A" again on a registry holding two Students
\* named "A": two keys, one of them with both Students, the other with
\* None, and the registry as the roster filled it.
C30_Witness ==
  /\ Found
  /\ LastCall.raised = "none"
  /\ LastCall.user_names = ListFilter(<< "A", "Z", "A" >>)
  /\ Len(LastCall.returned.value) = 2
  /\ DictGet(LastCall.returned.value, "A").kind = "list"
  /\ DictGet(LastCall.returned.value, "Z").kind = "None"
  /\ Len(global_students) = 3

====
